---- MODULE Spec2Model ----
(***************************************************************************)
(* A model of the AR HUD overlay's detection and rendering pipeline.       *)
(*                                                                         *)
(*  Part I    ObjectDetectionService as src/services/                      *)
(*            objectDetectionService.ts defines it (the variant VideoHUD   *)
(*            imports), with its detection worker: the busy flag, the      *)
(*            10 ms throttle, the 4 s watchdog interval, dispose().        *)
(*  Part II   The re-identification variant (src/unnamed/part_002): its    *)
(*            submit/reply protocol.                                       *)
(*  Part III  The render worker of src/components/VideoHUD.tsx: the frame  *)
(*            loop and the visualState map with its opacity lifecycle.     *)
(*                                                                         *)
(* Each part has its own variables and its own specification; an action of *)
(* one part leaves the variables of the other parts unchanged.             *)
(***************************************************************************)
EXTENDS Integers, Sequences, FiniteSets, TLC

(***************************************************************************)
(* Bounds of the model.                                                    *)
(***************************************************************************)
\* detect() calls that may be running (suspended in createImageBitmap) at once
MaxCalls == 2
\* frames that may be posted and not yet answered before the model stops submitting
MaxInFlight == 2
\* messages other than RESULT that may wait in the main thread's queue
MaxOutbox == 1
\* loop() runs without an UPDATE_MARKERS in between that the render worker's history counts
MaxStall == 3

(***************************************************************************)
(* Part I.  ObjectDetectionService (src/services/objectDetectionService.ts)*)
(***************************************************************************)
VARIABLES
    worker,             \* this.worker: "null" or "worker"
    isReady,            \* this.isReady
    isBusy,             \* this.isBusy
    sinceProcessed,     \* Date.now() - this.lastProcessedTime, saturated at THROTTLE_MS
    lastMarkers,        \* this.lastMarkers
    currentVideoWidth,  \* this.currentVideoWidth
    watchdog,           \* TRUE once load() has installed the setInterval watchdog
    calls,              \* the detect() calls: "idle", or "bitmap" (in createImageBitmap)
    initState,          \* worker: initModels(): "loading" | "loaded" | "failed"
    inbox,              \* frames posted to the worker, its handler not yet started
    running,            \* frames whose worker handler is suspended in Promise.all
    outbox,             \* messages the worker posted, not yet handled by worker.onmessage
    lastLost,           \* history: the frame whose handler last ended without a reply (-1: none)
    clearedBy,          \* history: the code path that last set isBusy to false
    handledResult,      \* history: the list the last handled RESULT produced
    settled             \* history: how the detect() call that ended last ended, and its list

detVars == <<worker, isReady, isBusy, sinceProcessed, lastMarkers, currentVideoWidth,
             watchdog, calls, initState, inbox, running, outbox,
             lastLost, clearedBy, handledResult, settled>>

(***************************************************************************)
(* Part II.  The re-identification variant (src/unnamed/part_002).  Its    *)
(* reconciliation state (persistenceCache, lastMarkers) plays no part in   *)
(* the submit/reply protocol and is not among these variables.             *)
(***************************************************************************)
VARIABLES
    reidWorker,         \* this.worker: "null" | "worker" | "terminated" (after dispose)
    reidIsReady,        \* this.isReady
    reidIsBusy,         \* this.isBusy
    reidCalls,          \* the detect() calls: "idle" | "bitmap" | "resolved"
    reidInit,           \* worker: init(): "loading" | "loaded" | "failed"
    reidInbox,          \* number of frames posted to the worker, its handler not yet started
    reidRunning,        \* number of worker handlers suspended in Promise.all
    reidOutbox,         \* messages the worker posted, not yet handled by worker.onmessage
    reidLost            \* history: how the last frame that got no reply ended ("none" at first)

reidVars == <<reidWorker, reidIsReady, reidIsBusy, reidCalls, reidInit, reidInbox,
              reidRunning, reidOutbox, reidLost>>

(***************************************************************************)
(* Part III.  The render worker (RENDER_WORKER_CODE in VideoHUD.tsx).      *)
(***************************************************************************)
VARIABLES
    inited,                 \* history: INIT has been received
    ctx,                    \* "null" or "ctx": the 2d context INIT obtained
    rafPending,             \* loop() callbacks requestAnimationFrame has scheduled
    canvasWidth,            \* canvasWidth
    visualMode,             \* visualMode
    orientationInitialized, \* orientationInitialized
    markers,                \* markers: the payload of the last UPDATE_MARKERS
    visualState,            \* visualState: the Map, as its entries in insertion order
    deleted,                \* history: the entries the last frame deleted, as they were
    framesSinceBatch        \* history: loop() runs since the last UPDATE_MARKERS, up to MaxStall

renderVars == <<inited, ctx, rafPending, canvasWidth, visualMode, orientationInitialized,
                markers, visualState, deleted, framesSinceBatch>>

(***************************************************************************)
(* Part IIIb.  One entry of visualState at a finer opacity grid            *)
(* (ten-thousandths), for the number of frames its fade-out takes.         *)
(***************************************************************************)
VARIABLES
    fineInBatch,    \* the entry's id is in `markers`
    fineReported,   \* the x and y `markers` has for the id (the origin when it has none)
    fineAlive,      \* visualState has the entry
    fineX,          \* its x
    fineY,          \* its y
    fineOpacity,    \* its currentOpacity, in ten-thousandths
    fineTarget,     \* its targetOpacity, in ten-thousandths
    fineSinceSeen,  \* now - lastSeen at the last frame, up to PERSISTENCE_MS
    fineFading      \* history: frames drawn since the entry's targetOpacity became 0

fineVars == <<fineInBatch, fineReported, fineAlive, fineX, fineY, fineOpacity, fineTarget,
              fineSinceSeen, fineFading>>

(***************************************************************************)
(* Part V.  Yaw differences: getAlphaDiff of src/unnamed/part_002 and the  *)
(* render worker's inline computation, applied to a pair of yaw angles.    *)
(***************************************************************************)
VARIABLES
    yawA1,          \* the first angle, in degrees
    yawA2,          \* the second angle, in degrees
    yawDiff,        \* getAlphaDiff(a1, a2)
    yawInline       \* the render worker's dAlpha for a1 - a2

yawVars == <<yawA1, yawA2, yawDiff, yawInline>>

\* Part IV: the tracked entries of the re-identification variant (src/unnamed/part_002)
VARIABLES
    persistenceCache,   \* persistenceCache: the Map, as its entries in insertion order
    nextId,             \* nextId
    anchorOri,          \* anchorOri, once set ([set |-> FALSE] stands for null)
    returned,           \* the ids of the markers the last process() returned, in order
    runDets,            \* history: currentWorldDets of the last process()
    runElapsed,         \* history: milliseconds between the last process() and the one before
    runMatches,         \* history: the matches of the last process(), as [id, idx], in order
    usedIds             \* history: every id an entry of persistenceCache ever had

trackVars == <<persistenceCache, nextId, anchorOri, returned, runDets, runElapsed, runMatches,
               usedIds>>

\* Part VI: samples of getIoU (src/unnamed/part_002)
VARIABLES
    iouA,               \* the first box given to getIoU: centre x, y and size w, h
    iouB,               \* the second box
    iouAB,              \* getIoU(iouA, iouB)
    iouBA               \* getIoU(iouB, iouA)

iouVars == <<iouA, iouB, iouAB, iouBA>>

\* Part VII: processRawMarkers and calculateDistance (src/services/objectDetectionService.ts)
VARIABLES
    distLabel,          \* m.label of the marker given to processRawMarkers
    distHeight,         \* m.height, in tenths of the frame's height (0 when it is missing)
    distFrame,          \* currentVideoHeight, in pixels
    distMarker          \* the processed marker: label, height in pixels, distance in tenths of a metre

distVars == <<distLabel, distHeight, distFrame, distMarker>>

\* Part VIII: the smoothing of one marker, by getInterpolatedMarkers of the adaptive
\* variant (src/unnamed/part_001) and by the render worker's lerp (VideoHUD.tsx)
VARIABLES
    targetMarker,   \* targetMarkers.get(id), as <<>> or <<marker>>
    currentMarker,  \* currentMarkers.get(id), as <<>> or <<marker>>
    persistence,    \* persistenceMap.get(id) || 0
    settling,       \* history: calls of getInterpolatedMarkers since the target last changed
                    \* that found the marker JITTER_THRESHOLD or more from it
    batchMarker,    \* the marker of this id in the render worker's `markers`, <<>> or <<marker>>
    visualEntry,    \* visualState.get(id), as <<>> or <<entry>>
    hudSettling,    \* history: frames of the render worker since the batch's marker changed
                    \* that found the entry a pixel or more from it
    retargets       \* history: the times a target was replaced by a different one

smoothVars == <<targetMarker, currentMarker, persistence, settling, batchMarker, visualEntry,
                hudSettling, retargets>>

\* Part IX: the orientation, the shift and the drawing of the render worker
\* (RENDER_WORKER_CODE in VideoHUD.tsx)
VARIABLES
    hudCtx,             \* INIT has been received and has obtained a context
    canvasSize,         \* canvasWidth and canvasHeight
    currentOrientation, \* the object currentOrientation refers to
    anchorOrientation,  \* the object anchorOrientation refers to
    anchorShared,       \* the two variables refer to the same object
    hudInitialized,     \* orientationInitialized
    zoomLevel,          \* zoomLevel
    hudMode,            \* visualMode
    hudMarkers,         \* markers, as <<>> or <<marker>>
    hudEntry,           \* visualState, as <<>> or <<entry>>
    drawn,              \* what the last frame computed and drew, and the frames drawn
    sensorsSeen         \* history: the UPDATE_SENSORS messages received, up to MaxSensors

stabVars == <<hudCtx, canvasSize, currentOrientation, anchorOrientation, anchorShared,
              hudInitialized, zoomLevel, hudMode, hudMarkers, hudEntry, drawn, sensorsSeen>>

\* Part X: a RESULT batch in worker.onmessage of ObjectDetectionService
\* (src/services/objectDetectionService.ts)
VARIABLES
    batchInFlight,  \* a frame has been posted and its RESULT not handled
    batchBusy,      \* this.isBusy
    batchIn,        \* history: the markers of the RESULT handled last
    batchOut,       \* this.lastMarkers
    batchThrew      \* history: the handler of the last RESULT ended by an exception

batchVars == <<batchInFlight, batchBusy, batchIn, batchOut, batchThrew>>

\* Part XI: the detection effect of VideoHUD (src/components/VideoHUD.tsx)
VARIABLES
    hudMounted,     \* VideoHUD is mounted: workerRef.current is the render worker
    activeFilter,   \* the activeFilter prop of the last render
    markersProp,    \* the markers prop of the last render (aiMarkers)
    effects,        \* the runs of the detection effect, oldest first: each one's isMounted,
                    \* the props its closure captured, and where its processFrame loop and
                    \* its snapshot are
    lastBatch,      \* history: the UPDATE_MARKERS posted last, with the props of that moment
    lastFrameCall   \* history: the onVideoFrame call made last

hudVars == <<hudMounted, activeFilter, markersProp, effects, lastBatch, lastFrameCall>>

\* Part XII: the frames of the detection workers, in the variant VideoHUD imports
\* (src/services/objectDetectionService.ts) and in the re-identification variant
\* (src/unnamed/part_002)
VARIABLES
    wk,         \* for each variant: the service's worker, isReady and isBusy, the worker's
                \* isLoaded, the LOADED message in flight, and the frames posted, waiting
                \* for the handler and suspended in it
    wkEnded     \* history: the variant, the path and the close() calls of the handler
                \* that ended last

wkVars == <<wk, wkEnded>>

\* Part XIII: the three maps of the adaptive-LERP variant (src/unnamed/part_001)
VARIABLES
    currentMarkers,     \* this.currentMarkers: for each id, <<>> or the marker it holds
    targetMarkers,      \* this.targetMarkers, likewise
    persistenceMap,     \* this.persistenceMap: for each id, <<>> or the life it holds
    lifeReturned,       \* history: the ids of the markers the last detect() returned
    lifeCalls           \* history: for each id, the detect() calls that have returned
                        \* since the last RESULT that reported it (-1: never reported)

lifeVars == <<currentMarkers, targetMarkers, persistenceMap, lifeReturned, lifeCalls>>

\* Part XIV: the connection of GeminiService (src/services/geminiService.ts)
VARIABLES
    shouldReconnect,    \* this.shouldReconnect
    reconnectAttempts,  \* this.reconnectAttempts, counted up to MaxAttempts
    gemStatus,          \* the status passed to onStatusChange last ("" at first)
    gemTimers,          \* reconnect timers of handleClose that have not fired
    gemLinks,           \* live sessions: those `ai.live.connect` has not settled for yet
                        \* (connecting) and those that are open, whose callbacks are bound
                        \* to the service
    gemDisconnected,    \* history: disconnect() was called and connect() has not been
                        \* called by the host since
    gemSince,           \* history: the statuses reported since that disconnect()
    gemAttempted        \* history: connect() was run by a reconnect timer since then

gemVars == <<shouldReconnect, reconnectAttempts, gemStatus, gemTimers, gemLinks,
             gemDisconnected, gemSince, gemAttempted>>

\* Part XV: the audio queue of GeminiService (src/services/geminiService.ts)
VARIABLES
    currentTurnVersion, \* this.currentTurnVersion
    activeSources,      \* this.activeSources: the number of sources started and not ended
    audioChains,        \* the promise chains that hold chunks, oldest first; the last one
                        \* is this.processingQueue.  A chunk carries the version at which
                        \* it was received and, once scheduleAudioChunk runs for it, the
                        \* localVersion it read
    audioReceived,      \* history: the chunks received
    audioStarted        \* history: the chunk whose source was started last

audioVars == <<currentTurnVersion, activeSources, audioChains, audioReceived, audioStarted>>

\* Part XVI: the reconnection of P2PService (src/unnamed/part_004)
VARIABLES
    p2pPeer,            \* this.peer: "null", "peer" or "destroyed" (null again, after destroy())
    p2pLink,            \* the Peer's connection to the signalling server: "connecting",
                        \* "open" or "disconnected" (peer.disconnected is true)
    reconnectTimeout,   \* this.reconnectTimeout: "null", "live" (the id of a pending timer)
                        \* or "stale" (the id of a timer that was cleared)
    p2pTimers,          \* the reconnect timers pending
    p2pOwed,            \* history: an event found the peer disconnected, and since then
                        \* neither reconnect() nor destroy() has been called
    p2pReconnects,      \* history: the reconnect() calls, counted up to MaxReconnects
    p2pLate,            \* history: reconnect() has been executed after destroy()
    p2pCall             \* history: what the last callUser() returned ("none" at first)

p2pVars == <<p2pPeer, p2pLink, reconnectTimeout, p2pTimers, p2pOwed, p2pReconnects, p2pLate,
             p2pCall>>

\* Part XVII: the chat messages of App (src/App.tsx)
VARIABLES
    chatMessages,   \* the messages state of App
    chatPending,    \* the updaters passed to setMessages that React has not applied yet,
                    \* each with the message of its delivery
    chatDelivered,  \* history: the deliveries of the chat subscription
    chatDuplicate,  \* history: an updater has been applied for an id the list held
    chatKept        \* history: every such updater returned the list it was given

chatVars == <<chatMessages, chatPending, chatDelivered, chatDuplicate, chatKept>>

\* the variables of the parts after Part III, and all variables but a part's own
laterVars == <<fineVars, yawVars, trackVars, iouVars, distVars, smoothVars, stabVars, batchVars, hudVars, wkVars, lifeVars, gemVars, audioVars, p2pVars, chatVars>>
exceptFine == <<detVars, reidVars, renderVars, yawVars, trackVars, iouVars, distVars, smoothVars, stabVars, batchVars, hudVars, wkVars, lifeVars, gemVars, audioVars, p2pVars, chatVars>>
exceptYaw == <<detVars, reidVars, renderVars, fineVars, trackVars, iouVars, distVars, smoothVars, stabVars, batchVars, hudVars, wkVars, lifeVars, gemVars, audioVars, p2pVars, chatVars>>
exceptTrack == <<detVars, reidVars, renderVars, fineVars, yawVars, iouVars, distVars, smoothVars, stabVars, batchVars, hudVars, wkVars, lifeVars, gemVars, audioVars, p2pVars, chatVars>>
exceptIoU == <<detVars, reidVars, renderVars, fineVars, yawVars, trackVars, distVars, smoothVars, stabVars, batchVars, hudVars, wkVars, lifeVars, gemVars, audioVars, p2pVars, chatVars>>
exceptDist == <<detVars, reidVars, renderVars, fineVars, yawVars, trackVars, iouVars, smoothVars, stabVars, batchVars, hudVars, wkVars, lifeVars, gemVars, audioVars, p2pVars, chatVars>>
exceptSmooth == <<detVars, reidVars, renderVars, fineVars, yawVars, trackVars, iouVars, distVars, stabVars, batchVars, hudVars, wkVars, lifeVars, gemVars, audioVars, p2pVars, chatVars>>
exceptStab == <<detVars, reidVars, renderVars, fineVars, yawVars, trackVars, iouVars, distVars, smoothVars, batchVars, hudVars, wkVars, lifeVars, gemVars, audioVars, p2pVars, chatVars>>
exceptBatch == <<detVars, reidVars, renderVars, fineVars, yawVars, trackVars, iouVars, distVars, smoothVars, stabVars, hudVars, wkVars, lifeVars, gemVars, audioVars, p2pVars, chatVars>>
exceptHud == <<detVars, reidVars, renderVars, fineVars, yawVars, trackVars, iouVars, distVars, smoothVars, stabVars, batchVars, wkVars, lifeVars, gemVars, audioVars, p2pVars, chatVars>>
exceptWk == <<detVars, reidVars, renderVars, fineVars, yawVars, trackVars, iouVars, distVars, smoothVars, stabVars, batchVars, hudVars, lifeVars, gemVars, audioVars, p2pVars, chatVars>>
exceptLife == <<detVars, reidVars, renderVars, fineVars, yawVars, trackVars, iouVars, distVars, smoothVars, stabVars, batchVars, hudVars, wkVars, gemVars, audioVars, p2pVars, chatVars>>
exceptGem == <<detVars, reidVars, renderVars, fineVars, yawVars, trackVars, iouVars, distVars, smoothVars, stabVars, batchVars, hudVars, wkVars, lifeVars, audioVars, p2pVars, chatVars>>
exceptAudio == <<detVars, reidVars, renderVars, fineVars, yawVars, trackVars, iouVars, distVars, smoothVars, stabVars, batchVars, hudVars, wkVars, lifeVars, gemVars, p2pVars, chatVars>>
exceptP2P == <<detVars, reidVars, renderVars, fineVars, yawVars, trackVars, iouVars, distVars, smoothVars, stabVars, batchVars, hudVars, wkVars, lifeVars, gemVars, audioVars, chatVars>>
exceptChat == <<detVars, reidVars, renderVars, fineVars, yawVars, trackVars, iouVars, distVars, smoothVars, stabVars, batchVars, hudVars, wkVars, lifeVars, gemVars, audioVars, p2pVars>>

vars == <<detVars, reidVars, renderVars, laterVars>>

\* objectDetectionService.ts:376  `now - this.lastProcessedTime < 10`
THROTTLE_MS == 10

Calls == 1..MaxCalls

\* A frame is named by its age, the number of frames posted after it: 0 is the frame
\* posted last.  Ages stop counting at MaxInFlight.
Aged(a) == IF a < MaxInFlight THEN a + 1 ELSE a
AgedAll(frames) == [i \in 1..Len(frames) |-> Aged(frames[i])]
Without(frames, i) == [j \in 1..(Len(frames) - 1) |-> IF j < i THEN frames[j] ELSE frames[j + 1]]

\* video.videoWidth of the frames the host submits
VideoWidths == {640}

\* The marker lists a RESULT message may carry: normalised coordinates (x is 0 or 1).
RawBatches == { <<>>, <<[id |-> "pose-0", x |-> 1]>> }

\* objectDetectionService.ts:403-423: normalised markers to video pixels.
processRawMarkers(normalizedMarkers, width) ==
    [i \in 1..Len(normalizedMarkers) |->
        [id |-> normalizedMarkers[i].id, x |-> normalizedMarkers[i].x * width]]


\* The frames posted to the worker and not yet answered: waiting in its queue, being
\* processed, or answered by a RESULT that worker.onmessage has not handled yet.
PendingResults == { i \in 1..Len(outbox) : outbox[i].type = "RESULT" }
InFlight == Len(inbox) + Len(running) + Cardinality(PendingResults)
Suspended == { c \in Calls : calls[c] = "bitmap" }

InitDet ==
    /\ worker = "null"
    /\ isReady = FALSE
    /\ isBusy = FALSE
    /\ sinceProcessed = THROTTLE_MS     \* lastProcessedTime = 0, Date.now() is large
    /\ lastMarkers = <<>>
    /\ currentVideoWidth = 1
    /\ watchdog = FALSE
    /\ calls = [c \in Calls |-> "idle"]
    /\ initState = "loading"
    /\ inbox = <<>>
    /\ running = <<>>
    /\ outbox = <<>>
    /\ lastLost = -1
    /\ clearedBy = "none"
    /\ handledResult = <<>>
    /\ settled = [how |-> "none", list |-> <<>>]

InitReid ==
    /\ reidWorker = "null"
    /\ reidIsReady = FALSE
    /\ reidIsBusy = FALSE
    /\ reidCalls = [c \in Calls |-> "idle"]
    /\ reidInit = "loading"
    /\ reidInbox = 0
    /\ reidRunning = 0
    /\ reidOutbox = <<>>
    /\ reidLost = "none"

InitRender ==
    /\ inited = FALSE
    /\ ctx = "null"
    /\ rafPending = 0
    /\ canvasWidth = 0
    /\ visualMode = "normal"
    /\ orientationInitialized = FALSE
    /\ markers = <<>>
    /\ visualState = <<>>
    /\ deleted = {}
    /\ framesSinceBatch = 0

InitFine ==
    /\ fineInBatch = FALSE
    /\ fineReported = [x |-> 0, y |-> 0]
    /\ fineAlive = FALSE
    /\ fineX = 0
    /\ fineY = 0
    /\ fineOpacity = 0
    /\ fineTarget = 0
    /\ fineSinceSeen = 0
    /\ fineFading = 0

InitYaw ==
    /\ yawA1 = 0
    /\ yawA2 = 0
    /\ yawDiff = 0
    /\ yawInline = 0

InitTrack ==
    /\ persistenceCache = <<>>
    /\ nextId = 0
    /\ anchorOri = [set |-> FALSE, a |-> 0, b |-> 0]
    /\ returned = <<>>
    /\ runDets = <<>>
    /\ runElapsed = 0
    /\ runMatches = <<>>
    /\ usedIds = {}

InitIoU ==
    /\ iouA = [x |-> 0, y |-> 0, w |-> 0, h |-> 0]
    /\ iouB = [x |-> 1, y |-> 0, w |-> 0, h |-> 0]
    /\ iouAB = [num |-> 0, den |-> 1]
    /\ iouBA = [num |-> 0, den |-> 1]

InitDist ==
    /\ distLabel = "person"
    /\ distHeight = 1
    /\ distFrame = 480
    /\ distMarker = [label |-> "CHELOVEK", height |-> 48, distance |-> 204]

InitSmooth ==
    /\ targetMarker = <<>>
    /\ currentMarker = <<>>
    /\ persistence = 0
    /\ settling = 0
    /\ batchMarker = <<>>
    /\ visualEntry = <<>>
    /\ hudSettling = 0
    /\ retargets = 0

InitStab ==
    /\ hudCtx = FALSE
    /\ canvasSize = [width |-> 0, height |-> 0]
    /\ currentOrientation = [alpha |-> 0, beta |-> 0, gamma |-> 0]
    /\ anchorOrientation = [alpha |-> 0, beta |-> 0, gamma |-> 0]
    /\ anchorShared = FALSE
    /\ hudInitialized = FALSE
    /\ zoomLevel = 1
    /\ hudMode = "normal"
    /\ hudMarkers = <<>>
    /\ hudEntry = <<>>
    /\ drawn = [frames |-> 0, shiftX |-> 0, shiftY |-> 0, pitchOffset |-> 0, roll |-> 0,
                mainColor |-> "", grid |-> FALSE, boxes |-> <<>>]
    /\ sensorsSeen = 0

InitBatch ==
    /\ batchInFlight = FALSE
    /\ batchBusy = FALSE
    /\ batchIn = <<>>
    /\ batchOut = <<>>
    /\ batchThrew = FALSE

InitHud ==
    /\ hudMounted = TRUE
    /\ activeFilter = "all"
    /\ markersProp = <<>>
    /\ effects = <<[isMounted |-> TRUE, filterVal |-> "all", aiMarkers |-> <<>>,
                    pc |-> "raf", snapshot |-> "none"]>>
    /\ lastBatch = <<>>
    /\ lastFrameCall = <<>>

InitWk ==
    /\ wk = [v \in {"hud", "reid"} |->
                [worker |-> FALSE, isReady |-> FALSE, isBusy |-> FALSE, isLoaded |-> FALSE,
                 loadedPosted |-> FALSE, posted |-> 0, inbox |-> 0, running |-> 0]]
    /\ wkEnded = <<>>

InitLife ==
    /\ currentMarkers = [id \in {"pose-0", "face-0"} |-> <<>>]
    /\ targetMarkers = [id \in {"pose-0", "face-0"} |-> <<>>]
    /\ persistenceMap = [id \in {"pose-0", "face-0"} |-> <<>>]
    /\ lifeReturned = {}
    /\ lifeCalls = [id \in {"pose-0", "face-0"} |-> -1]

InitGem ==
    /\ shouldReconnect = TRUE
    /\ reconnectAttempts = 0
    /\ gemStatus = ""
    /\ gemTimers = 0
    /\ gemLinks = [connecting |-> 0, open |-> 0]
    /\ gemDisconnected = FALSE
    /\ gemSince = {}
    /\ gemAttempted = FALSE

InitAudio ==
    /\ currentTurnVersion = 0
    /\ activeSources = 0
    /\ audioChains = << <<>> >>
    /\ audioReceived = 0
    /\ audioStarted = <<>>

InitP2P ==
    /\ p2pPeer = "null"
    /\ p2pLink = "connecting"
    /\ reconnectTimeout = "null"
    /\ p2pTimers = 0
    /\ p2pOwed = FALSE
    /\ p2pReconnects = 0
    /\ p2pLate = FALSE
    /\ p2pCall = "none"

InitChat ==
    /\ chatMessages = <<>>
    /\ chatPending = <<>>
    /\ chatDelivered = 0
    /\ chatDuplicate = FALSE
    /\ chatKept = TRUE

InitLater == InitFine /\ InitYaw /\ InitTrack /\ InitIoU /\ InitDist /\ InitSmooth /\ InitStab /\ InitBatch /\ InitHud /\ InitWk /\ InitLife /\ InitGem /\ InitAudio /\ InitP2P /\ InitChat

Init == InitDet /\ InitReid /\ InitRender /\ InitLater

\* `return this.lastMarkers` of an async function: the promise resolves with the list
Resolved(list) == [how |-> "resolved", list |-> list]

\* objectDetectionService.ts:338-361  load()
Load ==
    /\ worker = "null"                      \* `if (this.worker) return;`
    /\ worker' = "worker"
    /\ initState' = "loading"               \* the new worker runs initModels()
    /\ inbox' = <<>> /\ running' = <<>> /\ outbox' = <<>>
    /\ watchdog' = TRUE                     \* setInterval(..., 4000), never cleared
    /\ UNCHANGED <<isReady, isBusy, sinceProcessed, lastMarkers, currentVideoWidth, calls,
                   lastLost, clearedBy, handledResult>>
    /\ UNCHANGED settled
    /\ UNCHANGED <<reidVars, renderVars, laterVars>>

\* objectDetectionService.ts:363-369  dispose().  terminate() discards the worker, the
\* frames it holds and the messages it posted that have not been dispatched yet.
Dispose ==
    /\ worker # "null" \/ isReady
    /\ worker' = "null"
    /\ isReady' = FALSE
    /\ inbox' = <<>> /\ running' = <<>> /\ outbox' = <<>>
    /\ UNCHANGED <<isBusy, sinceProcessed, lastMarkers, currentVideoWidth, watchdog, calls,
                   initState, lastLost, clearedBy, handledResult>>
    /\ UNCHANGED settled
    /\ UNCHANGED <<reidVars, renderVars, laterVars>>

\* A watchdog whose callback leaves the busy flag alone.
WatchdogIdle ==
    /\ watchdog
    /\ isBusy
    /\ UNCHANGED vars

\* objectDetectionService.ts:359-360  the watchdog's callback, every 4000 ms from load()
\* on.  The interval's phase is unrelated to the moments detect() is called at and to
\* the worker's latency, so the callback may run between any two steps.
WATCHDOG_MS == 4000
WatchdogFires ==
    /\ watchdog
    /\ isBusy                               \* (with isBusy false it changes nothing)
    /\ isBusy' = FALSE
    /\ clearedBy' = "watchdog"
    /\ UNCHANGED <<worker, isReady, sinceProcessed, lastMarkers, currentVideoWidth, watchdog,
                   calls, initState, inbox, running, outbox, lastLost,
                   handledResult>>
    /\ UNCHANGED settled
    /\ UNCHANGED <<reidVars, renderVars, laterVars>>

\* Date.now() advances: THROTTLE_MS or more have passed since lastProcessedTime.
Tick ==
    /\ sinceProcessed < THROTTLE_MS
    /\ sinceProcessed' = THROTTLE_MS
    /\ UNCHANGED <<worker, isReady, isBusy, lastMarkers, currentVideoWidth, watchdog, calls,
                   initState, inbox, running, outbox, lastLost, clearedBy,
                   handledResult>>
    /\ UNCHANGED settled
    /\ UNCHANGED <<reidVars, renderVars, laterVars>>

\* An early return that yields an empty list while a request is in flight.
DetectReturnsEmpty(c) ==
    /\ \/ worker = "null"
       \/ sinceProcessed < THROTTLE_MS
       \/ isBusy
    /\ settled' = Resolved(IF isBusy THEN <<>> ELSE lastMarkers)
    /\ UNCHANGED <<isBusy, sinceProcessed, currentVideoWidth, calls>>

\* objectDetectionService.ts:372-376 and 378 (isBusy set): the calls that return at once
DetectReturnsEarly(c) ==
    /\ \/ worker = "null"
       \/ sinceProcessed < THROTTLE_MS
       \/ isBusy
    /\ settled' = Resolved(lastMarkers)
    /\ UNCHANGED <<isBusy, sinceProcessed, currentVideoWidth, calls>>

\* objectDetectionService.ts:378-388: the call that submits, up to `await createImageBitmap`
DetectSubmits(c, width) ==
    /\ worker # "null"
    /\ sinceProcessed >= THROTTLE_MS
    /\ ~isBusy
    /\ InFlight + Cardinality(Suspended) < MaxInFlight      \* bound of the model
    /\ isBusy' = TRUE
    /\ sinceProcessed' = 0                  \* this.lastProcessedTime = now
    /\ currentVideoWidth' = width
    /\ calls' = [calls EXCEPT ![c] = "bitmap"]
    /\ UNCHANGED settled

\* objectDetectionService.ts:371-401  detect(video), from its call to its first await
\* or its return
Detect(c) ==
    /\ calls[c] = "idle"
    /\ \/ DetectReturnsEarly(c)
       \/ \E width \in VideoWidths : DetectSubmits(c, width)
    /\ UNCHANGED <<worker, isReady, lastMarkers, watchdog, initState, inbox, running, outbox,
                   lastLost, clearedBy, handledResult>>
    /\ UNCHANGED <<reidVars, renderVars, laterVars>>

\* A resume without the try/catch: the TypeError rejects the promise detect() returned.
ResumeDisposedRejects(c) ==
    /\ settled' = [how |-> "rejected", list |-> <<>>]
    /\ UNCHANGED <<isBusy, clearedBy, inbox, running, lastLost>>

\* objectDetectionService.ts:390-400: createImageBitmap resolved with worker null.
\* `this.worker.postMessage` throws a TypeError, which the catch block swallows.
ResumeDisposed(c) ==
    /\ isBusy' = FALSE
    /\ clearedBy' = "nullworker"
    /\ settled' = Resolved(lastMarkers)
    /\ UNCHANGED <<inbox, running, lastLost>>

\* objectDetectionService.ts:390-400: createImageBitmap resolved, the frame is posted
ResumePosts(c) ==
    /\ inbox' = Append(AgedAll(inbox), 0)
    /\ running' = AgedAll(running)
    /\ lastLost' = IF lastLost = -1 THEN -1 ELSE Aged(lastLost)
    /\ settled' = Resolved(lastMarkers)
    /\ UNCHANGED <<isBusy, clearedBy>>

\* objectDetectionService.ts:385-400  detect(video), resumed after createImageBitmap
BitmapReady(c) ==
    /\ calls[c] = "bitmap"
    /\ calls' = [calls EXCEPT ![c] = "idle"]
    /\ IF worker = "null" THEN ResumeDisposed(c) ELSE ResumePosts(c)
    /\ UNCHANGED <<worker, isReady, sinceProcessed, lastMarkers, currentVideoWidth, watchdog,
                   initState, outbox, handledResult>>
    /\ UNCHANGED <<reidVars, renderVars, laterVars>>

\* the catch block leaves isBusy set
BitmapFailsStaysBusy(c) ==
    /\ calls[c] = "bitmap"
    /\ calls' = [calls EXCEPT ![c] = "idle"]
    /\ UNCHANGED <<isBusy, clearedBy>>
    /\ settled' = Resolved(lastMarkers)
    /\ UNCHANGED <<worker, isReady, sinceProcessed, lastMarkers, currentVideoWidth, watchdog,
                   initState, inbox, running, outbox, lastLost, handledResult>>
    /\ UNCHANGED <<reidVars, renderVars, laterVars>>
\* objectDetectionService.ts:395-400: createImageBitmap rejected, or postMessage threw
BitmapFails(c) ==
    /\ calls[c] = "bitmap"
    /\ calls' = [calls EXCEPT ![c] = "idle"]
    /\ isBusy' = FALSE
    /\ clearedBy' = "catch"
    /\ settled' = Resolved(lastMarkers)
    /\ UNCHANGED <<worker, isReady, sinceProcessed, lastMarkers, currentVideoWidth, watchdog,
                   initState, inbox, running, outbox, lastLost, handledResult>>
    /\ UNCHANGED <<reidVars, renderVars, laterVars>>

(***************************************************************************)
(* The detection worker (WORKER_CODE, objectDetectionService.ts:4-232).    *)
(***************************************************************************)
Msg(type, list) == [type |-> type, markers |-> list]

\* objectDetectionService.ts:30-84  initModels() succeeds
WorkerInitOk ==
    /\ worker # "null" /\ initState = "loading"
    /\ Len(outbox) - Cardinality(PendingResults) < MaxOutbox
    /\ initState' = "loaded"                \* isLoaded = true
    /\ outbox' = outbox \o << Msg("PROGRESS", <<>>), Msg("LOADED", <<>>) >>
    /\ UNCHANGED <<worker, isReady, isBusy, sinceProcessed, lastMarkers, currentVideoWidth,
                   watchdog, calls, inbox, running, lastLost, clearedBy,
                   handledResult>>
    /\ UNCHANGED settled
    /\ UNCHANGED <<reidVars, renderVars, laterVars>>

\* objectDetectionService.ts:85-91  initModels() fails: ERROR is posted, a retry is set
WorkerInitFails ==
    /\ worker # "null" /\ initState = "loading"
    /\ Len(outbox) - Cardinality(PendingResults) < MaxOutbox
    /\ initState' = "failed"
    /\ outbox' = Append(outbox, Msg("ERROR", <<>>))
    /\ UNCHANGED <<worker, isReady, isBusy, sinceProcessed, lastMarkers, currentVideoWidth,
                   watchdog, calls, inbox, running, lastLost, clearedBy,
                   handledResult>>
    /\ UNCHANGED settled
    /\ UNCHANGED <<reidVars, renderVars, laterVars>>

\* objectDetectionService.ts:88  the retry timer (5000 ms) calls initModels() again
WorkerInitRetry ==
    /\ worker # "null" /\ initState = "failed"
    /\ initState' = "loading"
    /\ UNCHANGED <<worker, isReady, isBusy, sinceProcessed, lastMarkers, currentVideoWidth,
                   watchdog, calls, inbox, running, outbox, lastLost, clearedBy,
                   handledResult>>
    /\ UNCHANGED settled
    /\ UNCHANGED <<reidVars, renderVars, laterVars>>

\* objectDetectionService.ts:96-109  onmessage, up to its first await: a frame that
\* arrives before the models are loaded is closed and dropped without a reply
WorkerReceives ==
    /\ worker # "null" /\ inbox # <<>>
    /\ inbox' = Tail(inbox)
    /\ IF initState # "loaded"
         THEN /\ lastLost' = Head(inbox)
              /\ UNCHANGED running
         ELSE /\ running' = Append(running, Head(inbox))
              /\ UNCHANGED lastLost
    /\ UNCHANGED <<worker, isReady, isBusy, sinceProcessed, lastMarkers, currentVideoWidth,
                   watchdog, calls, initState, outbox, clearedBy, handledResult>>
    /\ UNCHANGED settled
    /\ UNCHANGED <<reidVars, renderVars, laterVars>>

\* objectDetectionService.ts:222-223, 227-230  the detections are ready: RESULT is posted
WorkerResult(i, batch) ==
    /\ worker # "null" /\ i \in 1..Len(running)
    /\ running' = Without(running, i)
    /\ outbox' = Append(outbox, Msg("RESULT", batch))
    /\ UNCHANGED <<worker, isReady, isBusy, sinceProcessed, lastMarkers, currentVideoWidth,
                   watchdog, calls, initState, inbox, lastLost, clearedBy,
                   handledResult>>
    /\ UNCHANGED settled
    /\ UNCHANGED <<reidVars, renderVars, laterVars>>

\* objectDetectionService.ts:225-230  a detector throws: the error is logged, nothing
\* is posted
WorkerThrows(i) ==
    /\ worker # "null" /\ i \in 1..Len(running)
    /\ running' = Without(running, i)
    /\ lastLost' = running[i]
    /\ UNCHANGED <<worker, isReady, isBusy, sinceProcessed, lastMarkers, currentVideoWidth,
                   watchdog, calls, initState, inbox, outbox, clearedBy,
                   handledResult>>
    /\ UNCHANGED settled
    /\ UNCHANGED <<reidVars, renderVars, laterVars>>

(***************************************************************************)
(* worker.onmessage on the main thread (objectDetectionService.ts:344-357).*)
(***************************************************************************)
Delivered(type) == worker # "null" /\ outbox # <<>> /\ Head(outbox).type = type

\* objectDetectionService.ts:345-347
OnLoaded ==
    /\ Delivered("LOADED")
    /\ outbox' = Tail(outbox)
    /\ isReady' = TRUE
    /\ UNCHANGED <<worker, isBusy, sinceProcessed, lastMarkers, currentVideoWidth, watchdog,
                   calls, initState, inbox, running, lastLost, clearedBy,
                   handledResult>>
    /\ UNCHANGED settled
    /\ UNCHANGED <<reidVars, renderVars, laterVars>>

\* objectDetectionService.ts:348-349
OnProgress ==
    /\ Delivered("PROGRESS")
    /\ outbox' = Tail(outbox)
    /\ UNCHANGED <<worker, isReady, isBusy, sinceProcessed, lastMarkers, currentVideoWidth,
                   watchdog, calls, initState, inbox, running, lastLost,
                   clearedBy, handledResult>>
    /\ UNCHANGED settled
    /\ UNCHANGED <<reidVars, renderVars, laterVars>>

\* objectDetectionService.ts:350-352
OnResult ==
    /\ Delivered("RESULT")
    /\ outbox' = Tail(outbox)
    /\ lastMarkers' = processRawMarkers(Head(outbox).markers, currentVideoWidth)
    /\ handledResult' = processRawMarkers(Head(outbox).markers, currentVideoWidth)
    /\ isBusy' = FALSE
    /\ clearedBy' = "reply"
    /\ UNCHANGED <<worker, isReady, sinceProcessed, currentVideoWidth, watchdog, calls,
                   initState, inbox, running, lastLost>>
    /\ UNCHANGED settled
    /\ UNCHANGED <<reidVars, renderVars, laterVars>>

\* objectDetectionService.ts:353-356
OnError ==
    /\ Delivered("ERROR")
    /\ outbox' = Tail(outbox)
    /\ isBusy' = FALSE
    /\ clearedBy' = "reply"
    /\ UNCHANGED <<worker, isReady, sinceProcessed, lastMarkers, currentVideoWidth, watchdog,
                   calls, initState, inbox, running, lastLost, handledResult>>
    /\ UNCHANGED settled
    /\ UNCHANGED <<reidVars, renderVars, laterVars>>

NextDet ==
    \/ Load
    \/ Dispose
    \/ WatchdogFires
    \/ Tick
    \/ \E c \in Calls : Detect(c)
    \/ \E c \in Calls : BitmapReady(c)
    \/ \E c \in Calls : BitmapFails(c)
    \/ WorkerInitOk
    \/ WorkerInitFails
    \/ WorkerInitRetry
    \/ WorkerReceives
    \/ \E i \in 1..MaxInFlight, batch \in RawBatches : WorkerResult(i, batch)
    \/ \E i \in 1..MaxInFlight : WorkerThrows(i)
    \/ OnLoaded
    \/ OnProgress
    \/ OnResult
    \/ OnError

(***************************************************************************)
(* Fairness for Part I.  The event loops run every callback that is due:   *)
(* the watchdog interval fires, time passes, the worker handles the frames *)
(* it was sent and ends each handler, the main thread dispatches the       *)
(* worker's messages.  The host keeps calling detect() (VideoHUD calls it  *)
(* on every animation frame), and createImageBitmap does not fail every    *)
(* time it is called.                                                      *)
(***************************************************************************)
WorkerEnds == \/ \E i \in 1..MaxInFlight, batch \in RawBatches : WorkerResult(i, batch)
              \/ \E i \in 1..MaxInFlight : WorkerThrows(i)

FairDet ==
    /\ WF_vars(WatchdogFires)
    /\ WF_vars(Tick)
    /\ WF_vars(\E c \in Calls : Detect(c))
    /\ \A c \in Calls : SF_vars(BitmapReady(c))
    /\ WF_vars(WorkerInitOk \/ WorkerInitFails)
    /\ WF_vars(WorkerInitRetry)
    /\ WF_vars(WorkerReceives)
    /\ WF_vars(WorkerEnds)
    /\ WF_vars(OnLoaded \/ OnProgress \/ OnResult \/ OnError)

\* Part I alone: the detection service and its worker
SpecDet == Init /\ [][NextDet]_vars

\* Part I with the event loops' fairness
FairSpecDet == Init /\ [][NextDet]_vars /\ FairDet

(***************************************************************************)
(* Claims about Part I.                                                    *)
(***************************************************************************)

\* C1 (as claimed): at most one frame is in flight at any moment - posted to the
\* worker and not yet answered by a RESULT or ERROR that worker.onmessage has handled.
C1_AtMostOneInFlight == InFlight <= 1

\* The reply to the frame posted last is lost: its handler in the worker has ended
\* without posting, and the busy flag it set is still set.
LostBusy ==
    /\ isBusy
    /\ lastLost = 0
    /\ worker # "null"
    /\ Suspended = {}

\* C2: a busy flag never stays set forever, and when the reply to the frame posted
\* last is lost, a new frame is posted later, unless the service is disposed of first.
C2_WatchdogRecovers ==
    /\ isBusy ~> ~isBusy
    /\ LostBusy ~> (lastLost > 0 \/ worker = "null")

\* C2 witness: the reply to a frame was lost, the watchdog cleared the busy flag, and
\* the next frame has been posted and waits in the worker's queue.
C2_Witness ==
    /\ lastLost = 1
    /\ clearedBy = "watchdog"
    /\ isBusy
    /\ inbox = << 0 >>

\* C4: from dispose() on, as long as the service is not loaded again, lastMarkers does
\* not change, no frame is posted to the worker and no detect() call rejects.
C4_NothingAfterDispose ==
    [][ worker' = "null" =>
          /\ lastMarkers' = lastMarkers
          /\ inbox' = <<>> /\ running' = <<>>
          /\ settled'.how # "rejected" ]_vars

\* C4 witness: the service is disposed of, and a detect() call that was suspended in
\* createImageBitmap has resumed, swallowed the TypeError and resolved with lastMarkers,
\* a list that a RESULT handled before dispose() produced.
C4_Witness ==
    /\ worker = "null" /\ watchdog
    /\ clearedBy = "nullworker"
    /\ settled = Resolved(lastMarkers)
    /\ lastMarkers # <<>>
    /\ Suspended = {}

\* A step in which detect() call c returns to its caller.
Returns(c) ==
    \/ Detect(c) /\ calls'[c] = "idle"
    \/ BitmapReady(c)
    \/ BitmapFails(c)

\* C7: every detect() call resolves with the list the RESULT handled last produced
\* (the empty list before any), also while a request is in flight; a call suspended in
\* createImageBitmap can resume whatever the worker has or has not answered; and
\* lastMarkers changes only in the step that handles a RESULT.
C7_DetectNeverWaits ==
    /\ [][ \A c \in Calls : Returns(c) => settled' = Resolved(handledResult') ]_vars
    /\ [][ lastMarkers' # lastMarkers => OnResult ]_vars
    /\ [](\A c \in Calls : calls[c] = "bitmap" => ENABLED BitmapReady(c))

\* C7 witness: a call has resolved with the list of the last RESULT while the frame
\* it posted is still waiting for its reply.
C7_Witness ==
    /\ isBusy /\ inbox # <<>>
    /\ handledResult # <<>>
    /\ settled = Resolved(handledResult)

(***************************************************************************)
(* Part II.  The re-identification variant: load(), detect(), dispose()    *)
(* and the worker of src/unnamed/part_002.  load() is called on a service  *)
(* that has no running worker (once, or again after dispose()).            *)
(***************************************************************************)

\* part_002:136-145  load()
ReidLoad ==
    /\ reidWorker # "worker"
    /\ reidWorker' = "worker"
    /\ reidInit' = "loading"                \* the new worker runs init()
    /\ reidInbox' = 0 /\ reidRunning' = 0 /\ reidOutbox' = <<>>
    /\ UNCHANGED <<reidIsReady, reidIsBusy, reidCalls, reidLost>>
    /\ UNCHANGED <<detVars, renderVars, laterVars>>

\* part_002:288  dispose(): the worker is terminated; no field is reset
ReidDispose ==
    /\ reidWorker = "worker"
    /\ reidWorker' = "terminated"
    /\ reidInbox' = 0 /\ reidRunning' = 0 /\ reidOutbox' = <<>>
    /\ UNCHANGED <<reidIsReady, reidIsBusy, reidCalls, reidInit, reidLost>>
    /\ UNCHANGED <<detVars, renderVars, laterVars>>

\* part_002:147-151  detect(video, ori), from its call to its await or its return
ReidDetect(c) ==
    /\ reidCalls[c] = "idle"
    /\ IF ~reidIsReady \/ reidIsBusy
         THEN UNCHANGED <<reidIsBusy, reidCalls>>           \* return this.lastMarkers
         ELSE /\ reidIsBusy' = TRUE
              /\ reidCalls' = [reidCalls EXCEPT ![c] = "bitmap"]
    /\ UNCHANGED <<reidWorker, reidIsReady, reidInit, reidInbox, reidRunning, reidOutbox,
                   reidLost>>
    /\ UNCHANGED <<detVars, renderVars, laterVars>>

\* part_002:151-154  detect(), resumed after createImageBitmap: `this.worker?.postMessage`.
\* A message posted to a terminated worker is discarded.
ReidBitmapReady(c) ==
    /\ reidCalls[c] = "bitmap"
    /\ reidCalls' = [reidCalls EXCEPT ![c] = "idle"]
    /\ IF reidWorker = "worker"
         THEN reidInbox' = reidInbox + 1 /\ UNCHANGED reidLost
         ELSE reidLost' = "terminated" /\ UNCHANGED reidInbox
    /\ UNCHANGED <<reidWorker, reidIsReady, reidIsBusy, reidInit, reidRunning, reidOutbox>>
    /\ UNCHANGED <<detVars, renderVars, laterVars>>

\* part_002:153  createImageBitmap rejected: `catch(e) { this.isBusy = false; }`
ReidBitmapFails(c) ==
    /\ reidCalls[c] = "bitmap"
    /\ reidCalls' = [reidCalls EXCEPT ![c] = "idle"]
    /\ reidIsBusy' = FALSE
    /\ reidLost' = "bitmap"
    /\ UNCHANGED <<reidWorker, reidIsReady, reidInit, reidInbox, reidRunning, reidOutbox>>
    /\ UNCHANGED <<detVars, renderVars, laterVars>>

\* part_002:27-37  init() succeeds
ReidWorkerInitOk ==
    /\ reidWorker = "worker" /\ reidInit = "loading"
    /\ reidInit' = "loaded"
    /\ reidOutbox' = Append(reidOutbox, "LOADED")
    /\ UNCHANGED <<reidWorker, reidIsReady, reidIsBusy, reidCalls, reidInbox, reidRunning,
                   reidLost>>
    /\ UNCHANGED <<detVars, renderVars, laterVars>>

\* part_002:38  init() fails: ERROR is posted; init() is not tried again
ReidWorkerInitFails ==
    /\ reidWorker = "worker" /\ reidInit = "loading"
    /\ reidInit' = "failed"
    /\ reidOutbox' = Append(reidOutbox, "ERROR")
    /\ UNCHANGED <<reidWorker, reidIsReady, reidIsBusy, reidCalls, reidInbox, reidRunning,
                   reidLost>>
    /\ UNCHANGED <<detVars, renderVars, laterVars>>

\* part_002:42-48  onmessage, up to its await: before isLoaded the handler returns at once
ReidWorkerReceives ==
    /\ reidWorker = "worker" /\ reidInbox > 0
    /\ reidInbox' = reidInbox - 1
    /\ IF reidInit # "loaded"
         THEN reidLost' = "notloaded" /\ UNCHANGED reidRunning
         ELSE reidRunning' = reidRunning + 1 /\ UNCHANGED reidLost
    /\ UNCHANGED <<reidWorker, reidIsReady, reidIsBusy, reidCalls, reidInit, reidOutbox>>
    /\ UNCHANGED <<detVars, renderVars, laterVars>>

\* part_002:96-98  the detections are ready: RESULT is posted
ReidWorkerResult ==
    /\ reidWorker = "worker" /\ reidRunning > 0
    /\ reidRunning' = reidRunning - 1
    /\ reidOutbox' = Append(reidOutbox, "RESULT")
    /\ UNCHANGED <<reidWorker, reidIsReady, reidIsBusy, reidCalls, reidInit, reidInbox,
                   reidLost>>
    /\ UNCHANGED <<detVars, renderVars, laterVars>>

\* part_002:98  `catch(err) { console.error(err); }`: a detector threw, nothing is posted
ReidWorkerThrows ==
    /\ reidWorker = "worker" /\ reidRunning > 0
    /\ reidRunning' = reidRunning - 1
    /\ reidLost' = "threw"
    /\ UNCHANGED <<reidWorker, reidIsReady, reidIsBusy, reidCalls, reidInit, reidInbox,
                   reidOutbox>>
    /\ UNCHANGED <<detVars, renderVars, laterVars>>

\* part_002:138-144  worker.onmessage on the main thread: LOADED sets isReady, RESULT
\* takes the markers and clears isBusy, any other message (ERROR) is ignored
ReidOnMessage ==
    /\ reidWorker = "worker" /\ reidOutbox # <<>>
    /\ reidOutbox' = Tail(reidOutbox)
    /\ reidIsReady' = IF Head(reidOutbox) = "LOADED" THEN TRUE ELSE reidIsReady
    /\ reidIsBusy' = IF Head(reidOutbox) = "RESULT" THEN FALSE ELSE reidIsBusy
    /\ UNCHANGED <<reidWorker, reidCalls, reidInit, reidInbox, reidRunning, reidLost>>
    /\ UNCHANGED <<detVars, renderVars, laterVars>>

NextReid ==
    \/ ReidLoad
    \/ ReidDispose
    \/ \E c \in Calls : ReidDetect(c)
    \/ \E c \in Calls : ReidBitmapReady(c)
    \/ \E c \in Calls : ReidBitmapFails(c)
    \/ ReidWorkerInitOk
    \/ ReidWorkerInitFails
    \/ ReidWorkerReceives
    \/ ReidWorkerResult
    \/ ReidWorkerThrows
    \/ ReidOnMessage

\* The event loops run what is due, the host keeps calling detect(), and
\* createImageBitmap does not fail every time.
FairReid ==
    /\ WF_vars(\E c \in Calls : ReidDetect(c))
    /\ \A c \in Calls : SF_vars(ReidBitmapReady(c))
    /\ WF_vars(ReidWorkerInitOk \/ ReidWorkerInitFails)
    /\ WF_vars(ReidWorkerReceives)
    /\ WF_vars(ReidWorkerResult \/ ReidWorkerThrows)
    /\ WF_vars(ReidOnMessage)

\* Part II with the event loops' fairness
FairSpecReid == Init /\ [][NextReid]_vars /\ FairReid

\* C3 (as claimed): in the re-identification variant, when the worker's handler has
\* caught an error and posted nothing for the submitted frame, isBusy eventually
\* becomes false again.
C3_ReidBusyClears == (reidIsBusy /\ reidLost = "threw") ~> ~reidIsBusy

(***************************************************************************)
(* Part III.  The render worker (RENDER_WORKER_CODE of VideoHUD.tsx).      *)
(* Opacities are counted in twentieths: 20 is the opacity 1, 1 is 0.05.    *)
(* The time an entry was last seen is kept as the milliseconds elapsed     *)
(* since then, which stop counting at PERSISTENCE_MS.  The drawing calls   *)
(* change no state of the worker and are left out.                         *)
(***************************************************************************)
\* VideoHUD.tsx:228  `targetOpacity: 1`, in twentieths
OPAQUE == 20
\* VideoHUD.tsx:250  `m.currentOpacity < 0.05`, in twentieths
EPSILON == 1
\* VideoHUD.tsx:249  the factor 0.15 of the opacity lerp, in hundredths
OPACITY_FACTOR == 15
\* VideoHUD.tsx:56
PERSISTENCE_MS == 500

\* marker ids the detector reports, and the batches UPDATE_MARKERS carries (a batch
\* may repeat an id)
MarkerIds == {"pose-0", "face-0"}
Batches == { <<>>, <<"pose-0">>, <<"face-0">>, <<"pose-0", "face-0">>, <<"pose-0", "pose-0">> }
\* milliseconds between two frames
FrameSteps == {250, 500}
\* canvas.width at INIT, and the widths RESIZE carries
CanvasWidths == {300}
ResizeWidths == {640}
VisualModes == {"normal", "wireframe"}

\* the step is longer than the distance to `end`
lerpOvershoots(start, end, factor) == start + ((end - start) * (factor + 100)) \div 100
\* VideoHUD.tsx:58  lerp = start + (end - start) * factor, the step rounded to the grid
\* away from zero: as in the code, a value that is not at `end` moves towards it
lerp(start, end, factor) ==
    IF end >= start THEN start + (((end - start) * factor + 99) \div 100)
    ELSE start - (((start - end) * factor + 99) \div 100)

\* Map.prototype.has / get / set on the entries in insertion order
MapHas(map, id) == \E i \in 1..Len(map) : map[i].id = id
MapIndex(map, id) == CHOOSE i \in 1..Len(map) : map[i].id = id
MapGet(map, id) == map[MapIndex(map, id)]
MapSet(map, id, value) ==
    IF MapHas(map, id) THEN [map EXCEPT ![MapIndex(map, id)] = value] ELSE Append(map, value)

ElapsedAll(map, d) ==
    [i \in 1..Len(map) |->
        [map[i] EXCEPT !.sinceSeen = IF @ + d < PERSISTENCE_MS THEN @ + d ELSE PERSISTENCE_MS]]

\* a marker with an entry leaves the entry as it is
RECURSIVE ReconcileSpawnsOnly(_, _)
ReconcileSpawnsOnly(map, batch) ==
    IF batch = <<>> THEN map
    ELSE LET id == Head(batch)
             visual == IF MapHas(map, id)
                         THEN MapGet(map, id)
                         ELSE [id |-> id, currentOpacity |-> 0, targetOpacity |-> OPAQUE,
                               sinceSeen |-> 0]
         IN  ReconcileSpawnsOnly(MapSet(map, id, visual), Tail(batch))
\* VideoHUD.tsx:223-242  markers.forEach: a marker without an entry spawns one, a marker
\* with an entry refreshes it
RECURSIVE Reconcile(_, _)
Reconcile(map, batch) ==
    IF batch = <<>> THEN map
    ELSE LET id == Head(batch)
             visual == IF MapHas(map, id)
                         THEN [MapGet(map, id) EXCEPT !.targetOpacity = OPAQUE, !.sinceSeen = 0]
                         ELSE [id |-> id, currentOpacity |-> 0, targetOpacity |-> OPAQUE,
                               sinceSeen |-> 0]
         IN  Reconcile(MapSet(map, id, visual), Tail(batch))

\* VideoHUD.tsx:221-224  activeIds
ActiveIds(batch) == { batch[i] : i \in 1..Len(batch) }

\* the opacity moves towards 1 whatever the target is
FadeTowardsOpaque(m, activeIds) ==
    LET target == IF m.id \in activeIds THEN m.targetOpacity
                  ELSE IF m.sinceSeen < PERSISTENCE_MS THEN OPAQUE ELSE 0
    IN  [m EXCEPT !.targetOpacity = target,
                  !.currentOpacity = lerp(m.currentOpacity, OPAQUE, OPACITY_FACTOR)]
\* VideoHUD.tsx:245-249  one entry of visualState.forEach, up to the deletion test
Fade(m, activeIds) ==
    LET target == IF m.id \in activeIds THEN m.targetOpacity
                  ELSE IF m.sinceSeen < PERSISTENCE_MS THEN OPAQUE ELSE 0
    IN  [m EXCEPT !.targetOpacity = target,
                  !.currentOpacity = lerp(m.currentOpacity, target, OPACITY_FACTOR)]

FadeAll(map, activeIds) == [i \in 1..Len(map) |-> Fade(map[i], activeIds)]

\* the threshold is above the opacity of a spawned entry
DoomedFaint(m) == m.currentOpacity < 4 * EPSILON
\* VideoHUD.tsx:250  `if (m.currentOpacity < 0.05) { visualState.delete(id); return; }`
Doomed(m) == m.currentOpacity < EPSILON

Survivors(map) == SelectSeq(map, LAMBDA m : ~Doomed(m))
Deleted(map) == { map[i] : i \in { j \in 1..Len(map) : Doomed(map[j]) } }

\* VideoHUD.tsx:63-69  onmessage, INIT: getContext may yield no context; the first
\* loop() is scheduled.  The host posts INIT once to a worker (VideoHUD.tsx:413).
OnInit(context, width) ==
    /\ ~inited
    /\ inited' = TRUE
    /\ ctx' = context
    /\ canvasWidth' = width
    /\ rafPending' = rafPending + 1
    /\ UNCHANGED <<visualMode, orientationInitialized, markers, visualState, deleted,
                   framesSinceBatch>>
    /\ UNCHANGED <<detVars, reidVars, laterVars>>

\* VideoHUD.tsx:70-77  onmessage, RESIZE
OnResize(width) ==
    /\ canvasWidth' = width
    /\ UNCHANGED <<inited, ctx, rafPending, visualMode, orientationInitialized, markers,
                   visualState, deleted, framesSinceBatch>>
    /\ UNCHANGED <<detVars, reidVars, laterVars>>

\* VideoHUD.tsx:78-84  onmessage, UPDATE_MARKERS
OnUpdateMarkers(batch) ==
    /\ markers' = batch
    /\ framesSinceBatch' = 0
    /\ UNCHANGED <<inited, ctx, rafPending, canvasWidth, visualMode, orientationInitialized,
                   visualState, deleted>>
    /\ UNCHANGED <<detVars, reidVars, laterVars>>

\* VideoHUD.tsx:85-107  onmessage, UPDATE_SENSORS
OnUpdateSensors ==
    /\ orientationInitialized' = TRUE
    /\ UNCHANGED <<inited, ctx, rafPending, canvasWidth, visualMode, markers, visualState,
                   deleted, framesSinceBatch>>
    /\ UNCHANGED <<detVars, reidVars, laterVars>>

\* VideoHUD.tsx:108-110  onmessage, UPDATE_MODE
OnUpdateMode(mode) ==
    /\ visualMode' = mode
    /\ UNCHANGED <<inited, ctx, rafPending, canvasWidth, orientationInitialized, markers,
                   visualState, deleted, framesSinceBatch>>
    /\ UNCHANGED <<detVars, reidVars, laterVars>>

\* the loop gives up when there is no context
LoopStopsWithoutContext ==
    /\ rafPending > 0 /\ ctx = "null"
    /\ rafPending' = rafPending - 1
    /\ framesSinceBatch' = IF framesSinceBatch < MaxStall THEN framesSinceBatch + 1
                           ELSE framesSinceBatch
    /\ UNCHANGED <<inited, ctx, canvasWidth, visualMode, orientationInitialized, markers,
                   visualState, deleted>>
    /\ UNCHANGED <<detVars, reidVars, laterVars>>
\* VideoHUD.tsx:153-157  loop() without a context: `requestAnimationFrame(loop); return;`
LoopWithoutContext ==
    /\ rafPending > 0 /\ ctx = "null"
    /\ rafPending' = (rafPending - 1) + 1
    /\ framesSinceBatch' = IF framesSinceBatch < MaxStall THEN framesSinceBatch + 1
                           ELSE framesSinceBatch
    /\ UNCHANGED <<inited, ctx, canvasWidth, visualMode, orientationInitialized, markers,
                   visualState, deleted>>
    /\ UNCHANGED <<detVars, reidVars, laterVars>>

\* VideoHUD.tsx:153-391  loop() with a context, d milliseconds after the frame before:
\* the batch is reconciled into visualState, every entry is faded towards its target
\* and deleted below the epsilon, and the next loop() is scheduled.
LoopDraws(d) ==
    /\ rafPending > 0 /\ ctx = "ctx"
    /\ LET reconciled == Reconcile(ElapsedAll(visualState, d), markers)
           faded == FadeAll(reconciled, ActiveIds(markers))
       IN  /\ visualState' = Survivors(faded)
           /\ deleted' = Deleted(faded)
    /\ framesSinceBatch' = IF framesSinceBatch < MaxStall THEN framesSinceBatch + 1
                           ELSE framesSinceBatch
    /\ rafPending' = (rafPending - 1) + 1
    /\ UNCHANGED <<inited, ctx, canvasWidth, visualMode, orientationInitialized, markers>>
    /\ UNCHANGED <<detVars, reidVars, laterVars>>

Loop == LoopWithoutContext \/ \E d \in FrameSteps : LoopDraws(d)

NextRender ==
    \/ \E context \in {"null", "ctx"}, width \in CanvasWidths : OnInit(context, width)
    \/ \E width \in ResizeWidths : OnResize(width)
    \/ \E batch \in Batches : OnUpdateMarkers(batch)
    \/ OnUpdateSensors
    \/ \E mode \in VisualModes : OnUpdateMode(mode)
    \/ LoopWithoutContext
    \/ \E d \in FrameSteps : LoopDraws(d)

\* Part III
SpecRender == Init /\ [][NextRender]_vars

VisualOf(id) == MapGet(visualState, id)

\* C5: once INIT has been received the frame loop never stops: every run of loop(),
\* with or without a context, takes one scheduled callback and schedules exactly one,
\* so a callback is pending in every state after INIT, whatever messages have arrived.
C5_LoopNeverStops ==
    [][ /\ Loop => rafPending' = rafPending
        /\ inited' => rafPending' = 1 ]_vars

\* C5: the loop has run MaxStall times without a context and without any message other
\* than INIT, and its next run is scheduled.
C5_Witness ==
    /\ inited /\ ctx = "null" /\ framesSinceBatch = MaxStall /\ rafPending = 1
    /\ markers = <<>> /\ ~orientationInitialized /\ visualMode = "normal"
    /\ canvasWidth \in CanvasWidths

\* C6: while no UPDATE_MARKERS arrives, after every frame every marker of the last
\* batch has an entry with targetOpacity 1, and no entry the frame deleted is one of
\* the batch's, however many frames the stall lasts.
C6_StalledMarkersStay ==
    (ctx = "ctx" /\ framesSinceBatch > 0) =>
        /\ \A id \in ActiveIds(markers) :
              MapHas(visualState, id) /\ VisualOf(id).targetOpacity = OPAQUE
        /\ \A m \in deleted : m.id \notin ActiveIds(markers)

\* C6: a stall of MaxStall frames (longer than PERSISTENCE_MS): the marker of the batch
\* is fully opaque, and the entry that is not in the batch has just been deleted.
C6_Witness ==
    /\ ctx = "ctx" /\ framesSinceBatch = MaxStall /\ markers = << "pose-0" >>
    /\ MapHas(visualState, "pose-0") /\ VisualOf("pose-0").currentOpacity = OPAQUE
    /\ \E m \in deleted : m.id = "face-0"

\* C8: visualState holds at most one entry per marker id, and every entry's
\* currentOpacity lies between 0 and 1.
C8_UniqueIdsOpacityInRange ==
    /\ \A i, j \in 1..Len(visualState) : visualState[i].id = visualState[j].id => i = j
    /\ \A i \in 1..Len(visualState) :
          visualState[i].currentOpacity >= 0 /\ visualState[i].currentOpacity <= OPAQUE

\* C8: a batch that repeats an id has been drawn while another id's entry was live.
C8_Witness ==
    /\ markers = << "pose-0", "pose-0" >> /\ framesSinceBatch > 0 /\ ctx = "ctx"
    /\ Len(visualState) = 2

\* C9 (as claimed): an entry whose targetOpacity is 0 never has a higher currentOpacity
\* after the next frame, as long as it is in visualState.
C9_FadingNeverBrightens ==
    [][ \A i \in 1..Len(visualState), j \in 1..Len(visualState') :
          (visualState[i].targetOpacity = 0 /\ visualState'[j].id = visualState[i].id)
             => visualState'[j].currentOpacity <= visualState[i].currentOpacity ]_vars

\* C9 (amended): an entry whose targetOpacity is 0 has no higher currentOpacity after
\* the next frame, as long as it is in visualState and its targetOpacity is still 0,
\* that is until it is deleted or its id is in the batch again.
C9_FadingNeverBrightensWhileAbsent ==
    [][ \A i \in 1..Len(visualState), j \in 1..Len(visualState') :
          ( /\ visualState[i].targetOpacity = 0
            /\ visualState'[j].id = visualState[i].id
            /\ visualState'[j].targetOpacity = 0 )
             => visualState'[j].currentOpacity <= visualState[i].currentOpacity ]_vars

\* C9: an entry absent from the batch has faded for some frames and is still there.
C9_Witness ==
    /\ markers = <<>> /\ framesSinceBatch = MaxStall
    /\ \E i \in 1..Len(visualState) :
          /\ visualState[i].targetOpacity = 0
          /\ visualState[i].currentOpacity < OPAQUE \div 2

\* C10: every entry a frame deletes has a currentOpacity below the epsilon and the
\* targetOpacity 0: no entry with targetOpacity 1 is deleted.
C10_DeletesOnlyFadedOut ==
    \A m \in deleted : m.currentOpacity < EPSILON /\ m.targetOpacity = 0

\* C10: one frame has deleted an entry and drawn another entry in its spawn frame.
C10_Witness ==
    /\ deleted # {}
    /\ \E i \in 1..Len(visualState) :
          /\ visualState[i].targetOpacity = OPAQUE
          /\ visualState[i].currentOpacity = lerp(0, OPAQUE, OPACITY_FACTOR)

(***************************************************************************)
(* Part IIIb.  The life of one entry of visualState, frame by frame, with  *)
(* its opacity in ten-thousandths: lerp rounds a fading opacity down by    *)
(* less than one ten-thousandth a frame, far less than the distance        *)
(* between 0.85^18, 0.05 and 0.85^19.                                      *)
(***************************************************************************)
FINE_OPAQUE == OPAQUE * 500
FINE_EPSILON == EPSILON * 500

\* VideoHUD.tsx:55
LERP_FACTOR == 35

\* positions a marker is reported at, in pixels
Positions == { [x |-> 0, y |-> 0], [x |-> 2, y |-> 1] }

\* VideoHUD.tsx:78-79  onmessage, UPDATE_MARKERS: the batch has the entry's id, at a
\* position, or has it not
FineUpdateMarkers(present, at) ==
    /\ fineInBatch' = present
    /\ fineReported' = IF present THEN at ELSE [x |-> 0, y |-> 0]
    /\ UNCHANGED <<fineAlive, fineX, fineY, fineOpacity, fineTarget, fineSinceSeen, fineFading>>
    /\ UNCHANGED exceptFine

\* the coordinate moves on when it is at the reported one
FineMoveDrifts(current, reported) == lerp(current, reported + 1, LERP_FACTOR)
\* VideoHUD.tsx:233-234  `visual.x = lerp(visual.x, m.x, LERP_FACTOR)`, and y alike
FineMove(current, reported) == lerp(current, reported, LERP_FACTOR)

\* the opacity fades by 0.10 of its distance a frame
FineFadeSlow(current, target) == lerp(current, target, 10)
\* VideoHUD.tsx:249  `lerp(m.currentOpacity, m.targetOpacity, 0.15)`
FineFade(current, target) == lerp(current, target, OPACITY_FACTOR)

\* VideoHUD.tsx:223-250  what one loop(), d milliseconds after the one before, does to
\* the entry: spawned at the reported position, or refreshed and moved towards it, when
\* its id is in the batch; otherwise its target is 1 within PERSISTENCE_MS of lastSeen
\* and 0 after; then faded, and deleted below 0.05
FineFrame(d) ==
    LET elapsed == IF fineSinceSeen + d < PERSISTENCE_MS THEN fineSinceSeen + d
                   ELSE PERSISTENCE_MS
        sinceSeen == IF fineInBatch THEN 0 ELSE elapsed
        target == IF fineInBatch \/ sinceSeen < PERSISTENCE_MS THEN FINE_OPAQUE ELSE 0
        opacity == FineFade(IF fineAlive THEN fineOpacity ELSE 0, target)
        fading == IF target # 0 THEN 0 ELSE IF fineFading < 20 THEN fineFading + 1 ELSE 20
        x == IF ~fineInBatch THEN fineX
             ELSE IF fineAlive THEN FineMove(fineX, fineReported.x) ELSE fineReported.x
        y == IF ~fineInBatch THEN fineY
             ELSE IF fineAlive THEN FineMove(fineY, fineReported.y) ELSE fineReported.y
    IN  /\ fineInBatch \/ fineAlive
        /\ IF opacity < FINE_EPSILON
             THEN /\ fineAlive' = FALSE
                  /\ fineOpacity' = 0 /\ fineTarget' = 0 /\ fineSinceSeen' = 0
                  /\ fineX' = 0 /\ fineY' = 0
             ELSE /\ fineAlive' = TRUE
                  /\ fineOpacity' = opacity /\ fineTarget' = target
                  /\ fineSinceSeen' = sinceSeen
                  /\ fineX' = x /\ fineY' = y
        /\ fineFading' = fading
        /\ UNCHANGED <<fineInBatch, fineReported>>
        /\ UNCHANGED exceptFine

NextFine ==
    \/ \E present \in BOOLEAN, at \in Positions : FineUpdateMarkers(present, at)
    \/ \E d \in FrameSteps : FineFrame(d)

\* Part IIIb; frames keep ticking
FairSpecFine == Init /\ [][NextFine]_vars /\ WF_vars(\E d \in FrameSteps : FineFrame(d))

\* C11: an entry whose id is absent from the batch keeps targetOpacity 1 while less
\* than PERSISTENCE_MS have passed since it was seen; once its target is 0 it is
\* deleted after at most 19 frames; and if its id is absent from every batch from
\* some point on, it is eventually deleted for good.
C11_AbsentEntryIsDeleted ==
    /\ []((fineAlive /\ fineSinceSeen < PERSISTENCE_MS) => fineTarget = FINE_OPAQUE)
    /\ [](fineFading <= 19 /\ (fineAlive => fineFading <= 18))
    /\ (<>[](~fineInBatch)) => <>[](~fineAlive)

\* C11: a fully opaque entry has faded for 18 frames and is still in visualState: its
\* 19th frame deletes it.
C11_Witness ==
    /\ fineAlive /\ ~fineInBatch /\ fineFading = 18 /\ fineTarget = 0
    /\ fineOpacity >= FINE_EPSILON

AnyFineFrame == \E d \in FrameSteps : FineFrame(d)

\* C12: a frame drawn while the id is in the batch leaves an entry with that id; its
\* currentOpacity is higher after the frame than before (until it is 1 on the grid);
\* an entry is spawned at the reported position, and an entry that is at the reported
\* position stays there.
C12_SteadyDetection ==
    [][ (AnyFineFrame /\ fineInBatch) =>
          /\ fineAlive'
          /\ fineOpacity' <= FINE_OPAQUE
          /\ fineOpacity' > (IF fineAlive THEN fineOpacity ELSE 0) \/ fineOpacity = FINE_OPAQUE
          /\ (~fineAlive \/ (fineX = fineReported.x /\ fineY = fineReported.y))
                => (fineX' = fineReported.x /\ fineY' = fineReported.y) ]_vars

\* C12: the detection has been in the batch at the same place since the entry was
\* spawned there, and the entry is at that place and fully opaque.
C12_Witness ==
    /\ fineInBatch /\ fineAlive /\ fineReported = [x |-> 2, y |-> 1]
    /\ fineX = 2 /\ fineY = 1 /\ fineOpacity = FINE_OPAQUE

(***************************************************************************)
(* Part V.  Yaw differences.                                               *)
(***************************************************************************)
\* the yaw angle one degree on, in whole degrees of [0, 360)
Turned(a) == (a + 1) % 360

\* part_002:159  `while (diff > 180) diff -= 360;`
RECURSIVE WhileAbove(_)
WhileAbove(diff) == IF diff > 180 THEN WhileAbove(diff - 360) ELSE diff
\* part_002:160  `while (diff < -180) diff += 360;`
RECURSIVE WhileBelow(_)
WhileBelow(diff) == IF diff < -180 THEN WhileBelow(diff + 360) ELSE diff

\* the plain difference
getAlphaDiffPlain(a1, a2) == a1 - a2
\* part_002:157-162  getAlphaDiff
getAlphaDiff(a1, a2) == WhileBelow(WhileAbove(a1 - a2))

\* VideoHUD.tsx:187-189 and 95-97  `let dAlpha = a1 - a2; if (dAlpha > 180) dAlpha -= 360;
\* if (dAlpha < -180) dAlpha += 360;`
InlineDAlpha(a1, a2) ==
    LET dAlpha == a1 - a2
        lowered == IF dAlpha > 180 THEN dAlpha - 360 ELSE dAlpha
    IN  IF lowered < -180 THEN lowered + 360 ELSE lowered

\* both computations applied to a pair of angles
YawSample(a1, a2) ==
    /\ yawA1' = a1
    /\ yawA2' = a2
    /\ yawDiff' = getAlphaDiff(a1, a2)
    /\ yawInline' = InlineDAlpha(a1, a2)
    /\ UNCHANGED exceptYaw

\* the pair of angles changes by one degree in either angle
NextYaw ==
    \/ YawSample(Turned(yawA1), yawA2)
    \/ YawSample(yawA1, Turned(yawA2))

\* Part V
SpecYaw == Init /\ [][NextYaw]_vars

\* C20: for yaw angles in [0, 360), getAlphaDiff lies in [-180, 180] and differs from
\* a1 - a2 by a multiple of 360 (359 and 1 give -2), and the render worker's inline
\* computation gives the same value.
C20_ShortestYawDifference ==
    /\ yawDiff >= -180 /\ yawDiff <= 180
    /\ (yawDiff - (yawA1 - yawA2)) % 360 = 0
    /\ (yawA1 = 359 /\ yawA2 = 1) => yawDiff = -2
    /\ yawInline = yawDiff

\* C20: the wraparound case, 359 and 1
C20_Witness == yawA1 = 359 /\ yawA2 = 1 /\ yawDiff = -2 /\ yawInline = -2

(***************************************************************************)
(* Part IV.  process() of the re-identification variant.  Positions and    *)
(* sizes are fortieths of the frame's width and height; velocities are     *)
(* tenths of a fortieth per second; times are milliseconds; a confidence   *)
(* is in hundredths.  An entry keeps, instead of lastSeen, the time since  *)
(* lastSeen.  distAvg and shape, which only feed the returned marker's     *)
(* distance and shape, are left out.                                       *)
(***************************************************************************)
\* part_002:131
H_FOV == 60
\* part_002:132
MAX_MISSING_MS == 1500
\* part_002:134
EXTRAPOLATION_LIMIT == 5

\* n / d rounded to a whole number, away from zero and to the nearest (d > 0)
AwayFromZero(n, d) == IF n >= 0 THEN (n + d - 1) \div d ELSE -((-n + d - 1) \div d)
Nearest(n, d) == IF n >= 0 THEN (2 * n + d) \div (2 * d) ELSE -((2 * (-n) + d) \div (2 * d))

\* the units of position in the frame's width, and of velocity in a unit of position
\* per second
FRAME == 40
VELOCITY_SCALE == 10

\* the distance an entry of this velocity moves in dt milliseconds
Moved(velocity, dt) == Nearest(velocity * dt, 1000 * VELOCITY_SCALE)

Max(a, b) == IF a >= b THEN a ELSE b
Min(a, b) == IF a <= b THEN a ELSE b

\* getIoU with the sum of the areas for the union (`- inter` forgotten)
getIoUSumOfAreas(a, b) ==
    LET x1 == Max(2 * a.worldX - a.w, 2 * b.wx - b.w)
        y1 == Max(2 * a.worldY - a.h, 2 * b.wy - b.h)
        x2 == Min(2 * a.worldX + a.w, 2 * b.wx + b.w)
        y2 == Min(2 * a.worldY + a.h, 2 * b.wy + b.h)
        inter == Max(0, x2 - x1) * Max(0, y2 - y1)
        union == 4 * (a.w * a.h) + 4 * (b.w * b.h)
    IN  [num |-> inter, den |-> IF union = 0 THEN 1 ELSE union]

\* part_002:277-286  getIoU, as the fraction num / den.  The edges are computed in half
\* units (twice the coordinates), so both areas are four times the areas in units.
getIoU(a, b) ==
    LET x1 == Max(2 * a.worldX - a.w, 2 * b.wx - b.w)
        y1 == Max(2 * a.worldY - a.h, 2 * b.wy - b.h)
        x2 == Min(2 * a.worldX + a.w, 2 * b.wx + b.w)
        y2 == Min(2 * a.worldY + a.h, 2 * b.wy + b.h)
        inter == Max(0, x2 - x1) * Max(0, y2 - y1)
        union == 4 * (a.w * a.h) + 4 * (b.w * b.h) - inter
    IN  [num |-> inter, den |-> IF union = 0 THEN 1 ELSE union]

\* iou > maxIoU, for fractions with positive denominators
Exceeds(iou, maxIoU) == iou.num * maxIoU.den > maxIoU.num * iou.den

\* part_002:189  `let maxIoU = 0.05`
MIN_IOU == [num |-> 1, den |-> 20]

\* part_002:166-183  currentWorldDets: the detections moved by the world offset of the
\* capture orientation against the anchor
WorldOffsetX(captureOri, anchor) == Nearest(getAlphaDiff(captureOri.a, anchor.a) * FRAME, H_FOV)
WorldOffsetY(captureOri, anchor) == Nearest((captureOri.b - anchor.b) * FRAME * 10000, H_FOV * 5625)
WorldDets(newDets, offsetX, offsetY) ==
    [i \in 1..Len(newDets) |->
        [x |-> newDets[i].x, y |-> newDets[i].y,
         wx |-> newDets[i].x + offsetX, wy |-> newDets[i].y + offsetY,
         width |-> newDets[i].width, height |-> newDets[i].height,
         label |-> newDets[i].label, confidence |-> newDets[i].confidence,
         keypoints |-> [k \in 1..Len(newDets[i].keypoints) |->
                           [x |-> newDets[i].keypoints[k].x + offsetX,
                            y |-> newDets[i].keypoints[k].y + offsetY]]]]

\* part_002:191-193  the entry's box at its predicted position, dt milliseconds after
\* lastSeen
Predicted(data, dt) ==
    [worldX |-> data.worldX + Moved(data.velocity.x, dt),
     worldY |-> data.worldY + Moved(data.velocity.y, dt),
     w |-> data.w, h |-> data.h]

DetBox(det) == [wx |-> det.wx, wy |-> det.wy, w |-> det.width, h |-> det.height]

\* the search that forgets matchedIdx: a detection already matched can be taken again
RECURSIVE BestMatchAmongAll(_, _, _, _, _, _)
BestMatchAmongAll(dets, idx, matchedIdx, box, bestMatchIdx, maxIoU) ==
    IF idx > Len(dets) THEN bestMatchIdx
    ELSE LET iou == getIoU(box, DetBox(dets[idx]))
         IN  IF Exceeds(iou, maxIoU)
               THEN BestMatchAmongAll(dets, idx + 1, matchedIdx, box, idx, iou)
               ELSE BestMatchAmongAll(dets, idx + 1, matchedIdx, box, bestMatchIdx, maxIoU)

\* the search that takes the first detection over the threshold, not the best one
RECURSIVE BestMatchFirst(_, _, _, _, _, _)
BestMatchFirst(dets, idx, matchedIdx, box, bestMatchIdx, maxIoU) ==
    IF idx > Len(dets) THEN bestMatchIdx
    ELSE IF idx \notin matchedIdx /\ Exceeds(getIoU(box, DetBox(dets[idx])), maxIoU)
           THEN idx
           ELSE BestMatchFirst(dets, idx + 1, matchedIdx, box, bestMatchIdx, maxIoU)

\* part_002:188-203  the search for the best match among the detections from idx on,
\* with bestMatchIdx (0 for -1) and maxIoU so far
RECURSIVE BestMatch(_, _, _, _, _, _)
BestMatch(dets, idx, matchedIdx, box, bestMatchIdx, maxIoU) ==
    IF idx > Len(dets) THEN bestMatchIdx
    ELSE LET iou == getIoU(box, DetBox(dets[idx]))
         IN  IF idx \notin matchedIdx /\ Exceeds(iou, maxIoU)
               THEN BestMatch(dets, idx + 1, matchedIdx, box, idx, iou)
               ELSE BestMatch(dets, idx + 1, matchedIdx, box, bestMatchIdx, maxIoU)

\* the longest time the history sinceMatched tells apart
SinceCap == MAX_MISSING_MS + 1

\* part_002:211-214  0.7 of the old velocity and 0.3 of the instantaneous one, which is
\* the displacement over dt milliseconds
Blend(velocity, displacement, dt) ==
    AwayFromZero(7 * velocity * dt + 3000 * VELOCITY_SCALE * displacement, 10 * dt)

\* the match branch without the velocity estimate
MatchedEntryKeepsVelocity(data, det, dt) ==
    [data EXCEPT !.worldX = det.wx, !.worldY = det.wy, !.w = det.width, !.h = det.height,
                 !.keypoints = det.keypoints, !.age = 0, !.hits = data.hits + 1,
                 !.misses = 0, !.sinceMatched = 0]

\* part_002:205-228  the match branch: the entry after it was matched to det, dt
\* milliseconds after lastSeen
MatchedEntry(data, det, dt) ==
    [data EXCEPT
        !.velocity = IF dt > 10
                       THEN [x |-> Blend(data.velocity.x, det.wx - data.worldX, dt),
                             y |-> Blend(data.velocity.y, det.wy - data.worldY, dt)]
                       ELSE data.velocity,
        !.worldX = det.wx,
        !.worldY = det.wy,
        !.w = det.width,
        !.h = det.height,
        !.keypoints = det.keypoints,
        !.age = 0,
        !.hits = data.hits + 1,
        !.misses = 0,
        !.sinceMatched = 0]

\* the condition that leaves out `data.hits > 3`
DeadReckonsUnestablished(data, dt) == dt < 1000 /\ data.misses < EXTRAPOLATION_LIMIT

\* part_002:231  the condition of dead reckoning
DeadReckons(data, dt) == dt < 1000 /\ data.hits > 3 /\ data.misses < EXTRAPOLATION_LIMIT

\* part_002:229-237  the miss branch: the entry after no detection matched it, dt
\* milliseconds after lastSeen and elapsed milliseconds after the previous run
MissedEntry(data, dt, elapsed) ==
    LET since == Min(data.sinceMatched + elapsed, SinceCap)
    IN  IF DeadReckons(data, dt)
          THEN [data EXCEPT
                  !.misses = data.misses + 1,
                  !.worldX = data.worldX + Moved(data.velocity.x, dt),
                  !.worldY = data.worldY + Moved(data.velocity.y, dt),
                  !.age = 0,
                  !.sinceMatched = since]
          ELSE [data EXCEPT !.age = dt, !.sinceMatched = since]

\* part_002:185-238  the loop over the entries from the i-th on: the cache, matchedIdx
\* and the matches after it
RECURSIVE MatchLoop(_, _, _, _, _, _)
MatchLoop(cache, i, dets, matchedIdx, matches, elapsed) ==
    IF i > Len(cache) THEN [cache |-> cache, matchedIdx |-> matchedIdx, matches |-> matches]
    ELSE LET data == cache[i]
             dt == data.age + elapsed
             bestMatchIdx == BestMatch(dets, 1, matchedIdx, Predicted(data, dt), 0, MIN_IOU)
         IN  IF bestMatchIdx # 0
               THEN MatchLoop([cache EXCEPT ![i] = MatchedEntry(data, dets[bestMatchIdx], dt)],
                              i + 1, dets, matchedIdx \cup {bestMatchIdx},
                              Append(matches, [id |-> data.id, idx |-> bestMatchIdx]), elapsed)
               ELSE MatchLoop([cache EXCEPT ![i] = MissedEntry(data, dt, elapsed)],
                              i + 1, dets, matchedIdx, matches, elapsed)

\* part_002:242-251  the entry spawned for det under the id
NewEntry(id, det) ==
    [id |-> id, hits |-> 1, misses |-> 0, age |-> 0, sinceMatched |-> 0,
     worldX |-> det.wx, worldY |-> det.wy, w |-> det.width, h |-> det.height,
     label |-> det.label, keypoints |-> det.keypoints, velocity |-> [x |-> 0, y |-> 0]]

\* the condition that leaves out the confidence
SpawnsAnyConfidence(det, idx, matchedIdx) == idx \notin matchedIdx

\* part_002:241  `if (matchedIdx.has(idx) || det.confidence < 0.4) return`
Spawns(det, idx, matchedIdx) == idx \notin matchedIdx /\ ~(det.confidence < 40)

\* part_002:240-252  the loop over the detections from idx on: the cache and nextId
\* after it
RECURSIVE SpawnLoop(_, _, _, _, _)
SpawnLoop(cache, dets, idx, matchedIdx, next) ==
    IF idx > Len(dets) THEN [cache |-> cache, nextId |-> next]
    ELSE IF Spawns(dets[idx], idx, matchedIdx)
           THEN SpawnLoop(Append(cache, NewEntry(next, dets[idx])), dets, idx + 1, matchedIdx, next + 1)
           ELSE SpawnLoop(cache, dets, idx + 1, matchedIdx, next)

\* part_002:256-260  `if (staleTime > MAX_MISSING_MS) { delete; continue }`
Stale(data) == data.age > MAX_MISSING_MS

\* part_002:254-273  the entries that stay, and the markers made of them
Live(cache) == SelectSeq(cache, LAMBDA data : ~Stale(data))
MarkerOf(data) ==
    [id |-> data.id, label |-> data.label, x |-> data.worldX, y |-> data.worldY,
     width |-> data.w, height |-> data.h, keypoints |-> data.keypoints,
     confidence |-> IF data.misses > 0 THEN 40 ELSE 90]
Markers(cache) == [i \in 1..Len(cache) |-> MarkerOf(cache[i])]

\* the ids of a sequence of entries or markers
Ids(seq) == { seq[i].id : i \in 1..Len(seq) }

\* bounds of the model: the ids given out and the hits counted
MaxIds == 2
MaxHits == 4

\* the inputs: the time since the previous run, the capture orientation (the device is
\* held still, so every frame is captured at the anchor orientation) and the detections
\* of the worker.  With a run every 500 ms the time since lastSeen is under
\* a second for an entry seen in the previous run, and a second or more for any other.
ProcessSteps == {500}
CaptureOris == { [a |-> 0, b |-> 0] }
Detections ==
    { [x |-> 10, y |-> 10, width |-> 20, height |-> 20, label |-> "person", confidence |-> 90,
       keypoints |-> <<>>],
      [x |-> 20, y |-> 10, width |-> 20, height |-> 20, label |-> "car", confidence |-> 40,
       keypoints |-> << [x |-> 20, y |-> 10] >>],
      [x |-> 30, y |-> 10, width |-> 20, height |-> 20, label |-> "person", confidence |-> 30,
       keypoints |-> <<>>] }
DetectionLists ==
    {<<>>} \cup { <<d>> : d \in Detections }
           \cup { pair \in Detections \X Detections : pair[1] # pair[2] }

\* part_002:164-275  process(newDets, captureOri), elapsed milliseconds after the
\* previous run
Process(elapsed, newDets, captureOri) ==
    LET anchor == IF anchorOri.set THEN anchorOri
                  ELSE [set |-> TRUE, a |-> captureOri.a, b |-> captureOri.b]
    IN  \E dets \in {WorldDets(newDets, WorldOffsetX(captureOri, anchor), WorldOffsetY(captureOri, anchor))} :
        \E matched \in {MatchLoop(persistenceCache, 1, dets, {}, <<>>, elapsed)} :
        \E spawned \in {SpawnLoop(matched.cache, dets, 1, matched.matchedIdx, nextId)} :
        \E live \in {Live(spawned.cache)} :
        /\ spawned.nextId <= MaxIds
        /\ \A i \in 1..Len(live) : live[i].hits <= MaxHits
        /\ anchorOri' = anchor
        /\ persistenceCache' = live
        /\ nextId' = spawned.nextId
        /\ returned' = Markers(live)
        /\ runDets' = dets
        /\ runElapsed' = elapsed
        /\ runMatches' = matched.matches
        /\ usedIds' = usedIds \cup Ids(spawned.cache)
        /\ UNCHANGED exceptTrack

NextTrack ==
    \E elapsed \in ProcessSteps, newDets \in DetectionLists, captureOri \in CaptureOris :
        Process(elapsed, newDets, captureOri)

SpecTrack == Init /\ [][NextTrack]_vars

(***************************************************************************)
(* C13.  After any run of process(), no entry that has gone unmatched for  *)
(* longer than MAX_MISSING_MS is left in persistenceCache or among the     *)
(* returned markers, dead-reckoned or not.  The miss branch refreshes      *)
(* lastSeen on every dead reckoning (part_002:235) and the eviction        *)
(* measures from lastSeen (part_002:256-257), so an established entry      *)
(* outlives MAX_MISSING_MS without a match: this is violated.              *)
(***************************************************************************)
C13_UnmatchedEntriesEvicted ==
    /\ \A i \in 1..Len(persistenceCache) : persistenceCache[i].sinceMatched <= MAX_MISSING_MS
    /\ Ids(returned) = Ids(persistenceCache)

(***************************************************************************)
(* C14.  In one run of process() every detection is matched to at most one *)
(* entry and every entry to at most one detection: no two matches of a run *)
(* share their detection or their entry, every matched entry was in the    *)
(* cache and every matched index is one of the run's detections.           *)
(***************************************************************************)
C14_OneToOneMatches ==
    /\ \A i, j \in 1..Len(runMatches) :
          i # j => /\ runMatches[i].idx # runMatches[j].idx
                   /\ runMatches[i].id # runMatches[j].id
    /\ \A i \in 1..Len(runMatches) :
          /\ runMatches[i].idx \in 1..Len(runDets)
          /\ runMatches[i].id \in usedIds

\* an entry the last run left unmatched although its predicted box overlaps a detection
\* of the run by more than the threshold
PassedOver(data) ==
    /\ data.age > 0
    /\ \E idx \in 1..Len(runDets) :
          Exceeds(getIoU(Predicted(data, data.age), DetBox(runDets[idx])), MIN_IOU)

\* two entries overlapped the only detection and one of them got it
C14_Witness ==
    /\ Len(runDets) = 1
    /\ Len(runMatches) = 1
    /\ \E i \in 1..Len(persistenceCache) : PassedOver(persistenceCache[i])

\* the place of the entry with the id in a sequence of entries (0 when it has none)
PlaceOf(cache, id) ==
    IF id \in Ids(cache) THEN CHOOSE i \in 1..Len(cache) : cache[i].id = id ELSE 0

\* the IoU of a detection with the i-th entry's box at its predicted position, elapsed
\* milliseconds after the previous run
PredictedIoU(cache, i, det, elapsed) ==
    getIoU(Predicted(cache[i], cache[i].age + elapsed), DetBox(det))

\* the detections left for the i-th entry by the matches of the entries before it, and
\* those of them over the threshold
LeftFor(cache, i, dets, matches) ==
    { idx \in 1..Len(dets) :
        \A k \in 1..Len(matches) : matches[k].idx = idx => PlaceOf(cache, matches[k].id) >= i }
Candidates(cache, i, dets, matches, elapsed) ==
    { idx \in LeftFor(cache, i, dets, matches) :
        Exceeds(PredictedIoU(cache, i, dets[idx], elapsed), MIN_IOU) }

(***************************************************************************)
(* C15.  In a run of process() an entry is matched only to a detection     *)
(* whose IoU with the entry's box at its predicted position exceeds 0.05;  *)
(* the detection is one of greatest IoU among those no earlier entry of    *)
(* the cache has taken in this run; the entries are served in cache order, *)
(* each one taking a detection whenever one over the threshold is left.    *)
(***************************************************************************)
C15_GreedyBestIoU ==
    [][ trackVars' # trackVars =>
          /\ \A k \in 1..Len(runMatches') :
                LET i == PlaceOf(persistenceCache, runMatches'[k].id)
                    left == Candidates(persistenceCache, i, runDets', runMatches', runElapsed')
                IN  /\ i # 0
                    /\ runMatches'[k].idx \in left
                    /\ \A idx \in left :
                          ~Exceeds(PredictedIoU(persistenceCache, i, runDets'[idx], runElapsed'),
                                   PredictedIoU(persistenceCache, i, runDets'[runMatches'[k].idx],
                                                runElapsed'))
          /\ \A k, l \in 1..Len(runMatches') :
                k < l => PlaceOf(persistenceCache, runMatches'[k].id)
                           < PlaceOf(persistenceCache, runMatches'[l].id)
          /\ \A i \in 1..Len(persistenceCache) :
                (\A k \in 1..Len(runMatches') : runMatches'[k].id # persistenceCache[i].id)
                   => Candidates(persistenceCache, i, runDets', runMatches', runElapsed') = {}
      ]_vars

\* an entry that stood still (spawned with velocity 0, matched once, velocity still 0)
\* took the second detection, of IoU 1, although the first one, unmatched, was over the
\* threshold too
C15_Witness ==
    /\ Len(runDets) = 2
    /\ Len(runMatches) = 1
    /\ runMatches[1].idx = 2
    /\ \E i \in 1..Len(persistenceCache) :
          LET data == persistenceCache[i]
          IN  /\ data.id = runMatches[1].id
              /\ data.hits = 2
              /\ data.velocity = [x |-> 0, y |-> 0]
              /\ Exceeds(getIoU(Predicted(data, 0), DetBox(runDets[1])), MIN_IOU)

(***************************************************************************)
(* C16.  After a run of process() every matched entry has the position,    *)
(* size, label and keypoints of its detection, misses = 0, hits counted    *)
(* up and lastSeen = now.  The match branch (part_002:217-224) assigns     *)
(* worldX, worldY, w, h, keypoints, lastSeen, hits and misses but not      *)
(* label, so an entry matched to a detection of another label keeps its    *)
(* old one: this is violated.                                              *)
(***************************************************************************)
C16_MatchedEntryTakesDetection ==
    \A k \in 1..Len(runMatches) :
        LET det == runDets[runMatches[k].idx]
        IN  \E i \in 1..Len(persistenceCache) :
                LET data == persistenceCache[i]
                IN  /\ data.id = runMatches[k].id
                    /\ data.worldX = det.wx /\ data.worldY = det.wy
                    /\ data.w = det.width /\ data.h = det.height
                    /\ data.keypoints = det.keypoints
                    /\ data.label = det.label
                    /\ data.misses = 0
                    /\ data.hits >= 2
                    /\ data.age = 0

\* the entries of the cache that a run with these matches left unmatched
Unmatched(cache, matches) ==
    { i \in 1..Len(cache) : \A k \in 1..Len(matches) : matches[k].id # cache[i].id }

(***************************************************************************)
(* C17.  An entry that a run of process() leaves unmatched is dead-        *)
(* reckoned (position advanced by velocity times the time since lastSeen,  *)
(* misses counted up, lastSeen = now) if less than 1 s has passed since    *)
(* lastSeen, hits > 3 and misses < EXTRAPOLATION_LIMIT, and otherwise      *)
(* keeps its position, misses and lastSeen; misses stays in                *)
(* 0..EXTRAPOLATION_LIMIT.                                                 *)
(***************************************************************************)
C17_DeadReckoningOnlyWhenEstablished ==
    [][ /\ \A i \in 1..Len(persistenceCache') :
              persistenceCache'[i].misses \in 0..EXTRAPOLATION_LIMIT
        /\ trackVars' # trackVars =>
              \A i \in Unmatched(persistenceCache, runMatches') :
                  LET data == persistenceCache[i]
                      dt == data.age + runElapsed'
                      j == PlaceOf(persistenceCache', data.id)
                      after == persistenceCache'[j]
                  IN  j # 0 =>
                        IF dt < 1000 /\ data.hits > 3 /\ data.misses < EXTRAPOLATION_LIMIT
                          THEN /\ after.misses = data.misses + 1
                               /\ after.worldX = data.worldX + Moved(data.velocity.x, dt)
                               /\ after.worldY = data.worldY + Moved(data.velocity.y, dt)
                               /\ after.age = 0
                          ELSE /\ after.misses = data.misses
                               /\ after.worldX = data.worldX
                               /\ after.worldY = data.worldY
                               /\ after.age = dt
      ]_vars

\* an established, moving entry was dead-reckoned up to the cap and then left alone
C17_Witness ==
    \E i \in 1..Len(persistenceCache) :
        /\ persistenceCache[i].misses = EXTRAPOLATION_LIMIT
        /\ persistenceCache[i].hits > 3
        /\ persistenceCache[i].age > 0
        /\ persistenceCache[i].velocity.x >= 10 * VELOCITY_SCALE

\* the detections of a run that no entry was matched to
Free(dets, matches) ==
    { idx \in 1..Len(dets) : \A k \in 1..Len(matches) : matches[k].idx # idx }

(***************************************************************************)
(* C18.  A run of process() adds an entry only for an unmatched detection  *)
(* whose confidence is at least 0.4; each added entry has an id that no    *)
(* entry of persistenceCache has or ever had, and the ids of the entries   *)
(* in the cache are pairwise different; an id, once given, is below nextId *)
(* and so is never given again.                                            *)
(***************************************************************************)
C18_SpawnsConfidentWithFreshId ==
    [][ /\ \A i, j \in 1..Len(persistenceCache') :
              i # j => persistenceCache'[i].id # persistenceCache'[j].id
        /\ \A id \in usedIds' : id < nextId'
        /\ \A j \in 1..Len(persistenceCache') :
              persistenceCache'[j].id \notin Ids(persistenceCache) =>
                  /\ persistenceCache'[j].id \notin usedIds
                  /\ \E idx \in Free(runDets', runMatches') :
                        /\ ~(runDets'[idx].confidence < 40)
                        /\ persistenceCache'[j] = NewEntry(persistenceCache'[j].id, runDets'[idx])
        /\ Len(persistenceCache') - Cardinality(Ids(persistenceCache') \cap Ids(persistenceCache))
              <= Cardinality({ idx \in Free(runDets', runMatches') : ~(runDets'[idx].confidence < 40) })
      ]_vars

\* after an entry was evicted, a run with a confident and a low-confidence unmatched
\* detection has spawned one entry
C18_Witness ==
    /\ usedIds \ Ids(persistenceCache) # {}
    /\ \E i \in 1..Len(persistenceCache) :
          persistenceCache[i].hits = 1 /\ persistenceCache[i].age = 0
    /\ \E idx \in Free(runDets, runMatches) : runDets[idx].confidence < 40

Sign(n) == IF n > 0 THEN 1 ELSE IF n < 0 THEN -1 ELSE 0

\* the i-th entry got its box in the previous run (by a match or by being spawned) and
\* the only detection of this run is at another position
MovedDetection(cache, i, dets) ==
    /\ cache[i].age = 0 /\ cache[i].misses = 0
    /\ Len(dets) = 1
    /\ <<dets[1].wx, dets[1].wy>> # <<cache[i].worldX, cache[i].worldY>>

\* the run matched the detection to the entry, added no entry, and left the entry with a
\* velocity that is not zero and has the signs of the displacement
FollowedDetection(data, det, after, matches, next, nextAfter) ==
    /\ matches = << [id |-> data.id, idx |-> 1] >>
    /\ nextAfter = next
    /\ after.velocity # [x |-> 0, y |-> 0]
    /\ Sign(after.velocity.x) = Sign(det.wx - data.worldX)
    /\ Sign(after.velocity.y) = Sign(det.wy - data.worldY)

(***************************************************************************)
(* C19, as stated.  When the only detection of a run overlaps the box that *)
(* the only entry of the cache got in the previous run, at another         *)
(* position, the run matches it to the entry, adds no entry, and the       *)
(* entry's velocity afterwards is not zero and each component has the sign *)
(* of the displacement.  An entry that already has a velocity is searched  *)
(* for at its predicted position (part_002:192-193) and keeps 0.7 of its   *)
(* old velocity (part_002:213-214): this is violated.                      *)
(***************************************************************************)
C19_OverlappingDetectionFollowed ==
    [][ ( /\ trackVars' # trackVars
          /\ Len(persistenceCache) = 1
          /\ MovedDetection(persistenceCache, 1, runDets')
          /\ getIoU(Predicted(persistenceCache[1], 0), DetBox(runDets'[1])).num > 0 )
        => /\ Len(persistenceCache') = 1
           /\ FollowedDetection(persistenceCache[1], runDets'[1], persistenceCache'[1],
                                runMatches', nextId, nextId') ]_vars

(***************************************************************************)
(* C19, amended.  When the only detection of a run overlaps, by an IoU of  *)
(* more than 0.05 and at another position, the box that an entry with      *)
(* velocity zero got in the previous run, and no entry before it in the    *)
(* cache has that detection over the threshold, the run matches the        *)
(* detection to the entry, adds no entry, and the entry's velocity         *)
(* afterwards is not zero and each component has the sign of the           *)
(* displacement.                                                           *)
(***************************************************************************)
C19_OverlappingDetectionFollowedFromRest ==
    [][ trackVars' # trackVars =>
          \A i \in 1..Len(persistenceCache) :
              ( /\ MovedDetection(persistenceCache, i, runDets')
                /\ persistenceCache[i].velocity = [x |-> 0, y |-> 0]
                /\ Exceeds(getIoU(Predicted(persistenceCache[i], 0), DetBox(runDets'[1])), MIN_IOU)
                /\ \A j \in 1..(i - 1) :
                      ~Exceeds(PredictedIoU(persistenceCache, j, runDets'[1], runElapsed'), MIN_IOU) )
              => LET j == PlaceOf(persistenceCache', persistenceCache[i].id)
                 IN  /\ j # 0
                     /\ FollowedDetection(persistenceCache[i], runDets'[1], persistenceCache'[j],
                                          runMatches', nextId, nextId') ]_vars

\* an entry spawned in one run was matched in the next to the only detection, to its
\* left, and no entry was added
C19_Witness ==
    /\ Len(runDets) = 1
    /\ nextId = 1
    /\ Len(persistenceCache) = 1
    /\ runMatches = << [id |-> persistenceCache[1].id, idx |-> 1] >>
    /\ persistenceCache[1].hits = 2
    /\ persistenceCache[1].velocity.x < 0

(***************************************************************************)
(* Part VI.  getIoU on a grid of boxes: centres 0..MaxCentre, widths and   *)
(* heights 0..MaxSize, in the units of Part IV.  A sample changes one      *)
(* coordinate of one box by one step and calls getIoU in both orders.      *)
(***************************************************************************)
MaxCentre == 3
MaxSize == 2

\* a box as getIoU's first and as its second argument
AsEntry(box) == [worldX |-> box.x, worldY |-> box.y, w |-> box.w, h |-> box.h]
AsDet(box) == [wx |-> box.x, wy |-> box.y, w |-> box.w, h |-> box.h]

\* the boxes one step from a box
Stepped(box) ==
    { [box EXCEPT !.x = (box.x + 1) % (MaxCentre + 1)],
      [box EXCEPT !.y = (box.y + 1) % (MaxCentre + 1)],
      [box EXCEPT !.w = (box.w + 1) % (MaxSize + 1)],
      [box EXCEPT !.h = (box.h + 1) % (MaxSize + 1)] }

IoUSample(a, b) ==
    /\ iouA' = a
    /\ iouB' = b
    /\ iouAB' = getIoU(AsEntry(a), AsDet(b))
    /\ iouBA' = getIoU(AsEntry(b), AsDet(a))
    /\ UNCHANGED exceptIoU

NextIoU ==
    \/ \E a \in Stepped(iouA) : IoUSample(a, iouB)
    \/ \E b \in Stepped(iouB) : IoUSample(iouA, b)

SpecIoU == Init /\ [][NextIoU]_vars

\* two boxes that share no area: apart by at least half the sum of their widths, or of
\* their heights
Apart(a, b) ==
    \/ 2 * (IF a.x >= b.x THEN a.x - b.x ELSE b.x - a.x) >= a.w + b.w
    \/ 2 * (IF a.y >= b.y THEN a.y - b.y ELSE b.y - a.y) >= a.h + b.h

\* the properties of getIoU that hold of every pair of boxes
IoUInRangeAndSymmetric ==
    /\ iouAB.den > 0 /\ iouAB.num >= 0 /\ iouAB.num <= iouAB.den
    /\ iouAB.num * iouBA.den = iouBA.num * iouAB.den
    /\ Apart(iouA, iouB) => iouAB.num = 0

(***************************************************************************)
(* C21, as stated.  getIoU is 1 for any two identical boxes, zero-width    *)
(* and zero-height ones included, 0 for boxes that do not overlap, always  *)
(* within [0,1] and the same in both orders.  For identical boxes without  *)
(* area both the intersection and the union are 0 and getIoU returns       *)
(* 0 / 0.0001 = 0 (part_002:283-285): this is violated.                    *)
(***************************************************************************)
C21_IoUOfIdenticalBoxesIsOne ==
    /\ IoUInRangeAndSymmetric
    /\ iouA = iouB => iouAB.num = iouAB.den

(***************************************************************************)
(* C21, amended.  getIoU is 1 for any two identical boxes of non-zero      *)
(* width and height, 0 for identical boxes of zero width or height, 0 for  *)
(* boxes that do not overlap, always within [0,1] and the same in both     *)
(* orders.                                                                 *)
(***************************************************************************)
C21_IoUOfIdenticalBoxesWithArea ==
    /\ IoUInRangeAndSymmetric
    /\ (iouA = iouB /\ iouA.w * iouA.h > 0) => iouAB.num = iouAB.den
    /\ (iouA = iouB /\ iouA.w * iouA.h = 0) => iouAB.num = 0

\* getIoU has been called with two identical boxes with area, away from the origin
C21_Witness ==
    /\ iouA = iouB
    /\ iouA.w = 2 /\ iouA.h = 1 /\ iouA.x = 3
    /\ iouAB = iouBA
    /\ iouAB.num = iouAB.den

(***************************************************************************)
(* Part VII.  processRawMarkers and calculateDistance.  Real heights are   *)
(* hundredths of a metre, distances tenths of a metre, a marker's height   *)
(* tenths of the frame's height.  The labels are written in ASCII: the     *)
(* detector's 'person' and 'car', 'PERSON' for a label in another case,    *)
(* 'drone' for a label the tables lack; translateLabel's Cyrillic words    *)
(* are transliterated.                                                     *)
(***************************************************************************)
\* objectDetectionService.ts:334
DEFAULT_HEIGHT == 100

RawLabels == <<"person", "PERSON", "car", "drone">>
FrameHeights == <<480, 720, 1080>>
MaxTenths == 10

\* String.prototype.toLowerCase and toUpperCase on the labels of the model
toLowerCase(label) ==
    CASE label = "PERSON" -> "person"
      [] label = "CHELOVEK" -> "chelovek"
      [] label = "AVTO" -> "avto"
      [] label = "DRONE" -> "drone"
      [] OTHER -> label
toUpperCase(label) ==
    CASE label = "person" -> "PERSON"
      [] label = "car" -> "CAR"
      [] label = "drone" -> "DRONE"
      [] OTHER -> label

\* objectDetectionService.ts:245-332  OBJECT_HEIGHTS[key], 0 standing for undefined
OBJECT_HEIGHTS(key) ==
    CASE key = "person" -> 170
      [] key = "car" -> 150
      [] OTHER -> 0

\* objectDetectionService.ts:454-480  translateLabel
translateLabel(englishLabel) ==
    CASE englishLabel = "person" -> "CHELOVEK"
      [] englishLabel = "car" -> "AVTO"
      [] OTHER -> toUpperCase(englishLabel)

\* objectDetectionService.ts:436-452  calculateDistance, for currentVideoHeight = frame
calculateDistance(label, bboxHeightPixels, frame) ==
    IF bboxHeightPixels <= 0 THEN 0
    ELSE LET found == OBJECT_HEIGHTS(toLowerCase(label))
             realHeight == IF found # 0 THEN found ELSE DEFAULT_HEIGHT
         IN  Nearest(realHeight * frame * 12, 100 * bboxHeightPixels)

\* the marker that looks its height up under the translated label
processRawMarkerTranslated(label, height, frame) ==
    LET denormHeight == (height * frame) \div 10
    IN  [label |-> translateLabel(label),
         height |-> denormHeight,
         distance |-> calculateDistance(translateLabel(label), denormHeight, frame)]

\* objectDetectionService.ts:403-423  processRawMarkers, for one marker
processRawMarker(label, height, frame) ==
    LET denormHeight == (height * frame) \div 10
    IN  [label |-> translateLabel(label),
         height |-> denormHeight,
         distance |-> calculateDistance(label, denormHeight, frame)]

\* the element after one of a sequence, cyclically
After(seq, e) ==
    LET i == CHOOSE k \in 1..Len(seq) : seq[k] = e
    IN  seq[(i % Len(seq)) + 1]

DistSample(label, height, frame) ==
    /\ distLabel' = label
    /\ distHeight' = height
    /\ distFrame' = frame
    /\ distMarker' = processRawMarker(label, height, frame)
    /\ UNCHANGED exceptDist

NextDist ==
    \/ DistSample(After(RawLabels, distLabel), distHeight, distFrame)
    \/ DistSample(distLabel, (distHeight + 1) % (MaxTenths + 1), distFrame)
    \/ DistSample(distLabel, distHeight, After(FrameHeights, distFrame))

SpecDist == Init /\ [][NextDist]_vars

\* the height the claim assumes for a label: the table's entry under the label in lower
\* case, 1.0 for a label the table lacks
AssumedRealHeight ==
    CASE distLabel \in {"person", "PERSON"} -> 170
      [] distLabel = "car" -> 150
      [] distLabel = "drone" -> 100

\* distance is (assumedRealHeight * frameHeight * 1.2) / bboxHeightPixels to one decimal:
\* within half a tenth of it
IsRoundedDistance(distance, bboxHeightPixels) ==
    LET exact == AssumedRealHeight * distFrame * 12
        given == distance * 100 * bboxHeightPixels
    IN  /\ given - exact <= 50 * bboxHeightPixels
        /\ exact - given <= 50 * bboxHeightPixels

(***************************************************************************)
(* C22, as stated.  The distance of every processed marker is              *)
(* (assumedRealHeight * frameHeight * 1.2) / bboxHeightPixels rounded to   *)
(* one decimal, looked up under the marker's original label; 10.2 for      *)
(* 'person', frame height 720 and bbox height 144.  For a marker whose     *)
(* height is 0 or missing calculateDistance returns 0                      *)
(* (objectDetectionService.ts:437): this is violated.                      *)
(***************************************************************************)
C22_DistanceIsScaledHeight ==
    /\ distMarker.height = (distHeight * distFrame) \div 10
    /\ IsRoundedDistance(distMarker.distance, distMarker.height)
    /\ (distLabel = "person" /\ distFrame = 720 /\ distMarker.height = 144)
          => distMarker.distance = 102

(***************************************************************************)
(* C22, amended.  For a bbox height above 0 the distance is                *)
(* (assumedRealHeight * frameHeight * 1.2) / bboxHeightPixels rounded to   *)
(* one decimal, looked up under the marker's original label, and for a     *)
(* bbox height of 0 it is 0; 10.2 for 'person', frame height 720 and bbox  *)
(* height 144.                                                             *)
(***************************************************************************)
C22_DistanceIsScaledHeightOrZero ==
    /\ distMarker.height = (distHeight * distFrame) \div 10
    /\ distMarker.height > 0 => IsRoundedDistance(distMarker.distance, distMarker.height)
    /\ distMarker.height = 0 => distMarker.distance = 0
    /\ (distLabel = "person" /\ distFrame = 720 /\ distMarker.height = 144)
          => distMarker.distance = 102

\* the spec's example: 'person' in another case, frame height 720, bbox height 144
C22_Witness ==
    /\ distLabel = "PERSON"
    /\ distFrame = 720
    /\ distMarker = [label |-> "PERSON", height |-> 144, distance |-> 102]

(***************************************************************************)
(* Part VIII.  The smoothing of one marker.  getInterpolatedMarkers of the *)
(* adaptive variant (src/unnamed/part_001) moves currentMarkers' marker    *)
(* towards targetMarkers' one; the render worker's loop() moves            *)
(* visualState's entry towards the marker of the batch (VideoHUD.tsx).     *)
(* Positions and sizes are in tenths of a pixel, factors in                *)
(* ten-thousandths; a step is rounded towards zero in the adaptive variant *)
(* (it is never longer than the code's) and with lerp of Part III in the   *)
(* render worker.  A marker has one keypoint.                              *)
(***************************************************************************)
\* part_001:118
MAX_PERSISTENCE == 10
\* part_001:121  3.0 pixels, in tenths
JITTER_THRESHOLD == 30
\* part_001:122-123  in ten-thousandths
MIN_LERP == 800
MAX_LERP == 6000

\* the times a run replaces a target by a different one, and the frames counted since
MaxRetargets == 2
MaxSettling == 40

\* part_001:167  video.videoHeight, in pixels
ScreenHeight == 480

\* the markers the worker reports for the id: x, y, width, height and the keypoint
RawMarkers ==
    { [x |-> 0, y |-> 0, width |-> 500, height |-> 1000, kx |-> 0, ky |-> 0, distance |-> 0],
      [x |-> 20, y |-> 10, width |-> 600, height |-> 1200, kx |-> 10, ky |-> 10, distance |-> 0],
      [x |-> 2000, y |-> 0, width |-> 500, height |-> 1000, kx |-> 10, ky |-> 10, distance |-> 0],
      [x |-> 10, y |-> 0, width |-> 800, height |-> 1000, kx |-> 400, ky |-> 300, distance |-> 0] }

\* n / d rounded to a whole number towards zero (d > 0)
TowardsZero(n, d) == IF n >= 0 THEN n \div d ELSE -((-n) \div d)

Abs(n) == IF n >= 0 THEN n ELSE -n

\* Math.sqrt(dx * dx + dy * dy), rounded down
Euclid(dx, dy) ==
    CHOOSE r \in Max(Abs(dx), Abs(dy))..(Abs(dx) + Abs(dy)) :
        r * r <= dx * dx + dy * dy /\ (r + 1) * (r + 1) > dx * dx + dy * dy

\* the factor grows with the distance without a ceiling
lerpFactorUnclamped(dist) == Max(MIN_LERP, 6 * dist)
\* part_001:222-223  `(dist / 100) * MAX_LERP` clamped to MIN_LERP..MAX_LERP
lerpFactor(dist) == Max(MIN_LERP, Min(MAX_LERP, 6 * dist))

\* part_001:246  `Math.min(0.7, Math.max(0.2, kDist / 50))`
limbFactor(kDist) == Min(7000, Max(2000, 20 * kDist))

\* part_001:271-277  calculateDistance(bboxHeight, imageHeight), in tenths
adaptiveCalculateDistance(bboxHeight, imageHeight) ==
    IF bboxHeight <= 0 THEN 0 ELSE Nearest(100 * imageHeight * 10, bboxHeight)

\* the marker moves however near its target is
SmoothedWithoutDeadzone(curr, target) ==
    LET dx == target.x - curr.x
        dy == target.y - curr.y
        factor == lerpFactor(Euclid(dx, dy))
    IN  [curr EXCEPT !.x = @ + TowardsZero(dx * factor, 10000),
                     !.y = @ + TowardsZero(dy * factor, 10000),
                     !.width = @ + TowardsZero((target.width - @) * factor, 10000),
                     !.height = @ + TowardsZero((target.height - @) * factor, 10000)]
\* part_001:207-231  x, y, width and height of a marker that has a target
Smoothed(curr, target) ==
    LET dx == target.x - curr.x
        dy == target.y - curr.y
        dist == Euclid(dx, dy)
        factor == lerpFactor(dist)
    IN  IF dist < JITTER_THRESHOLD THEN curr
        ELSE [curr EXCEPT !.x = @ + TowardsZero(dx * factor, 10000),
                          !.y = @ + TowardsZero(dy * factor, 10000),
                          !.width = @ + TowardsZero((target.width - @) * factor, 10000),
                          !.height = @ + TowardsZero((target.height - @) * factor, 10000)]

\* part_001:233-254  the keypoint of a marker that has a target
SmoothedKeypoint(curr, target) ==
    LET kdx == target.kx - curr.kx
        kdy == target.ky - curr.ky
        kDist == Euclid(kdx, kdy)
    IN  IF kDist < JITTER_THRESHOLD THEN curr
        ELSE [curr EXCEPT !.kx = @ + TowardsZero(kdx * limbFactor(kDist), 10000),
                          !.ky = @ + TowardsZero(kdy * limbFactor(kDist), 10000)]

Settled(n) == IF n < MaxSettling THEN n + 1 ELSE n

\* the square of the distance between two markers, and between their keypoints
DistSq(a, b) == (a.x - b.x) * (a.x - b.x) + (a.y - b.y) * (a.y - b.y)
KDistSq(a, b) == (a.kx - b.kx) * (a.kx - b.kx) + (a.ky - b.ky) * (a.ky - b.ky)

\* the marker is JITTER_THRESHOLD or more from its target; the entry is a pixel or more
\* from the batch's marker
Outside(curr, target) == DistSq(curr, target) >= JITTER_THRESHOLD * JITTER_THRESHOLD
Away(entry, m) == DistSq(entry, m) >= 10 * 10

\* part_001:170-188  processWorkerResults, for a batch with the id: the target is
\* replaced, the life reset, and a marker without a current one is spawned at the target
ProcessWorkerResults(raw) ==
    /\ LET changed == targetMarker # <<>> /\ targetMarker # <<raw>>
       IN  /\ changed => retargets < MaxRetargets
           /\ retargets' = IF changed THEN retargets + 1 ELSE retargets
           /\ settling' = IF changed \/ currentMarker = <<>> THEN 0 ELSE settling
    /\ targetMarker' = <<raw>>
    /\ persistence' = MAX_PERSISTENCE
    /\ currentMarker' = IF currentMarker = <<>> THEN <<raw>> ELSE currentMarker
    /\ UNCHANGED <<batchMarker, visualEntry, hudSettling>>
    /\ UNCHANGED exceptSmooth

\* part_001:190-269  getInterpolatedMarkers: a marker whose life is over is deleted
\* from the three maps; otherwise its life is decremented and it is smoothed
GetInterpolatedMarkers ==
    /\ currentMarker # <<>>
    /\ IF persistence <= 0
         THEN /\ currentMarker' = <<>>
              /\ targetMarker' = <<>>
              /\ persistence' = 0
              /\ settling' = 0
         ELSE /\ persistence' = persistence - 1
              /\ settling' = IF Outside(currentMarker[1], targetMarker[1])
                               THEN Settled(settling) ELSE settling
              /\ UNCHANGED targetMarker
              /\ \E moved \in { SmoothedKeypoint(Smoothed(currentMarker[1], targetMarker[1]),
                                                 targetMarker[1]) } :
                   currentMarker' =
                     <<[moved EXCEPT !.distance =
                          adaptiveCalculateDistance(IF moved.height = 0 THEN 1000
                                                    ELSE moved.height, ScreenHeight)]>>
    /\ UNCHANGED <<batchMarker, visualEntry, hudSettling, retargets>>
    /\ UNCHANGED exceptSmooth

\* VideoHUD.tsx:78-79  onmessage, UPDATE_MARKERS, for a batch with the id (the life of
\* an entry whose id has left the batch is Part IIIb's)
SmoothUpdateMarkers(raw) ==
    /\ LET changed == batchMarker # <<>> /\ batchMarker # <<raw>>
       IN  /\ changed => retargets < MaxRetargets
           /\ retargets' = IF changed THEN retargets + 1 ELSE retargets
           /\ hudSettling' = IF changed THEN 0 ELSE hudSettling
    /\ batchMarker' = <<raw>>
    /\ UNCHANGED <<targetMarker, currentMarker, persistence, settling, visualEntry>>
    /\ UNCHANGED exceptSmooth

\* VideoHUD.tsx:223-242  markers.forEach of one loop(): the entry is spawned as a copy
\* of the marker, or moved towards it by LERP_FACTOR and given its keypoints and distance
SmoothLoop ==
    /\ batchMarker # <<>>
    /\ LET m == batchMarker[1]
       IN  visualEntry' = IF visualEntry = <<>> THEN <<m>>
                     ELSE <<[visualEntry[1] EXCEPT !.x = FineMove(@, m.x),
                                              !.y = FineMove(@, m.y),
                                              !.width = FineMove(@, m.width),
                                              !.height = FineMove(@, m.height),
                                              !.kx = m.kx, !.ky = m.ky,
                                              !.distance = m.distance]>>
    /\ hudSettling' = IF visualEntry = <<>> THEN 0
                      ELSE IF Away(visualEntry[1], batchMarker[1]) THEN Settled(hudSettling)
                      ELSE hudSettling
    /\ UNCHANGED <<targetMarker, currentMarker, persistence, settling, batchMarker, retargets>>
    /\ UNCHANGED exceptSmooth

NextSmooth ==
    \/ \E raw \in RawMarkers : ProcessWorkerResults(raw)
    \/ GetInterpolatedMarkers
    \/ \E raw \in RawMarkers : SmoothUpdateMarkers(raw)
    \/ SmoothLoop

\* Part VIII
SpecSmooth == Init /\ [][NextSmooth]_vars

\* a call of getInterpolatedMarkers that keeps the marker
InterpolatesMarker == GetInterpolatedMarkers /\ persistence > 0

\* C23: when the target of a marker is less than JITTER_THRESHOLD from its current
\* position, a call of getInterpolatedMarkers leaves its x, y, width and height as
\* they are; and it leaves a keypoint as it is that is less than the threshold from
\* the target's.
C23_DeadzoneLeavesMarker ==
    [][ InterpolatesMarker =>
          /\ ~Outside(currentMarker[1], targetMarker[1])
               => /\ currentMarker'[1].x = currentMarker[1].x
                  /\ currentMarker'[1].y = currentMarker[1].y
                  /\ currentMarker'[1].width = currentMarker[1].width
                  /\ currentMarker'[1].height = currentMarker[1].height
          /\ KDistSq(currentMarker[1], targetMarker[1]) < JITTER_THRESHOLD * JITTER_THRESHOLD
               => /\ currentMarker'[1].kx = currentMarker[1].kx
                  /\ currentMarker'[1].ky = currentMarker[1].ky ]_vars

\* C23: the marker has been interpolated with a target that differs from it in
\* position, size and keypoint, the position and the keypoint by less than the
\* threshold, and is where it was spawned.
C23_Witness ==
    /\ currentMarker # <<>> /\ persistence < MAX_PERSISTENCE /\ retargets = 1
    /\ targetMarker[1].x = 20 /\ targetMarker[1].y = 10 /\ targetMarker[1].kx = 10
    /\ currentMarker[1].x = 0 /\ currentMarker[1].y = 0
    /\ currentMarker[1].width = 500 /\ currentMarker[1].height = 1000
    /\ currentMarker[1].kx = 0 /\ currentMarker[1].ky = 0


\* c2 is between c and t
Toward(c, c2, t) == (c <= c2 /\ c2 <= t) \/ (t <= c2 /\ c2 <= c)

\* a frame of the render worker that finds the entry of the batch's marker
MovesEntry == SmoothLoop /\ visualEntry # <<>>

\* C24: while its target stays the same, every call of getInterpolatedMarkers that
\* keeps the marker, and every frame of the render worker, leaves x and y between
\* where they were and the target, so the distance to the target does not grow and the
\* target is not passed; a marker JITTER_THRESHOLD or more from its target, and an entry
\* that is not at the batch's marker, come nearer on every such call or frame, whether
\* or not a detection has arrived since the last one; the marker is nearer than
\* JITTER_THRESHOLD after at most 30 calls, the entry nearer than a pixel after at most
\* 13 frames.
C24_SmoothedValueApproachesTarget ==
    /\ [][ InterpolatesMarker =>
             /\ Toward(currentMarker[1].x, currentMarker'[1].x, targetMarker[1].x)
             /\ Toward(currentMarker[1].y, currentMarker'[1].y, targetMarker[1].y)
             /\ Outside(currentMarker[1], targetMarker[1])
                  => DistSq(currentMarker'[1], targetMarker[1])
                       < DistSq(currentMarker[1], targetMarker[1]) ]_vars
    /\ [][ MovesEntry =>
             /\ Toward(visualEntry[1].x, visualEntry'[1].x, batchMarker[1].x)
             /\ Toward(visualEntry[1].y, visualEntry'[1].y, batchMarker[1].y)
             /\ DistSq(visualEntry[1], batchMarker[1]) > 0
                  => DistSq(visualEntry'[1], batchMarker[1])
                       < DistSq(visualEntry[1], batchMarker[1]) ]_vars
    /\ [](settling <= 30 /\ hudSettling <= 13)

\* C24: the marker and the entry were 200 pixels from their targets and have reached
\* them in 30 calls and 13 frames
C24_Witness ==
    /\ currentMarker # <<>> /\ settling = 30 /\ ~Outside(currentMarker[1], targetMarker[1])
    /\ visualEntry # <<>> /\ hudSettling = 13 /\ ~Away(visualEntry[1], batchMarker[1])

(***************************************************************************)
(* Part IX.  The orientation, the shift and the drawing of the render      *)
(* worker (RENDER_WORKER_CODE of VideoHUD.tsx).  Angles are in degrees and *)
(* positions in pixels; the canvas sizes are multiples of 60 by 45, so the *)
(* pixels per degree are whole numbers.  currentOrientation and            *)
(* anchorOrientation are references: the first UPDATE_SENSORS assigns the  *)
(* payload's object to both, and the later ones write into the object      *)
(* currentOrientation refers to.  visualState holds the entry of one id,   *)
(* which every batch carries (the life of an entry whose id has left the   *)
(* batch is Part IIIb's).                                                  *)
(***************************************************************************)
MaxSensors == 3
MaxFrames == 3

\* the size of the canvas at INIT, and the sizes RESIZE carries
InitSizes == { [width |-> 600, height |-> 450] }
ResizeSizes == { [width |-> 1200, height |-> 900] }

\* the payloads of UPDATE_SENSORS
SensorSamples ==
    { [orientation |-> [alpha |-> 350, beta |-> 0, gamma |-> 0], zoom |-> 1],
      [orientation |-> [alpha |-> 100, beta |-> 20, gamma |-> 10], zoom |-> 2],
      [orientation |-> [alpha |-> 20, beta |-> -10, gamma |-> 0], zoom |-> 2] }

\* the modes of UPDATE_MODE
HudModes == {"normal", "machine", "wireframe"}

\* the markers of UPDATE_MARKERS
HudMarkers ==
    { [x |-> 300, y |-> 200, width |-> 50, height |-> 100],
      [x |-> 302, y |-> 200, width |-> 50, height |-> 100] }

\* VideoHUD.tsx:63-69  onmessage, INIT, with a context
StabInit(size) ==
    /\ ~hudCtx
    /\ hudCtx' = TRUE
    /\ canvasSize' = size
    /\ UNCHANGED <<currentOrientation, anchorOrientation, anchorShared, hudInitialized,
                   zoomLevel, hudMode, hudMarkers, hudEntry, drawn, sensorsSeen>>
    /\ UNCHANGED exceptStab

\* VideoHUD.tsx:70-77  onmessage, RESIZE
StabResize(size) ==
    /\ canvasSize' = size
    /\ UNCHANGED <<hudCtx, currentOrientation, anchorOrientation, anchorShared,
                   hudInitialized, zoomLevel, hudMode, hudMarkers, hudEntry, drawn,
                   sensorsSeen>>
    /\ UNCHANGED exceptStab

\* VideoHUD.tsx:78-84  onmessage, UPDATE_MARKERS: with an orientation, the anchor becomes
\* a copy of the current orientation
StabUpdateMarkers(m) ==
    /\ hudMarkers' = <<m>>
    /\ IF hudInitialized
         THEN anchorOrientation' = currentOrientation /\ anchorShared' = FALSE
         ELSE UNCHANGED <<anchorOrientation, anchorShared>>
    /\ UNCHANGED <<hudCtx, canvasSize, currentOrientation, hudInitialized, zoomLevel, hudMode,
                   hudEntry, drawn, sensorsSeen>>
    /\ UNCHANGED exceptStab

\* VideoHUD.tsx:94-104  the current orientation moved a tenth of the way to the sample
SmoothedOrientation(current, raw) ==
    LET alpha == current.alpha + Nearest(InlineDAlpha(raw.alpha, current.alpha), 10)
        raised == IF alpha < 0 THEN alpha + 360 ELSE alpha
    IN  [alpha |-> IF raised >= 360 THEN raised - 360 ELSE raised,
         beta |-> current.beta + Nearest(raw.beta - current.beta, 10),
         gamma |-> current.gamma + Nearest(raw.gamma - current.gamma, 10)]

\* the first sample gives the anchor a copy of its own
StabUpdateSensorsCopies(payload) ==
    /\ sensorsSeen < MaxSensors
    /\ sensorsSeen' = sensorsSeen + 1
    /\ IF ~hudInitialized
         THEN /\ currentOrientation' = payload.orientation
              /\ anchorOrientation' = payload.orientation
              /\ anchorShared' = FALSE
              /\ hudInitialized' = TRUE
         ELSE /\ currentOrientation' = SmoothedOrientation(currentOrientation,
                                                           payload.orientation)
              /\ UNCHANGED <<anchorOrientation, anchorShared, hudInitialized>>
    /\ zoomLevel' = payload.zoom
    /\ UNCHANGED <<hudCtx, canvasSize, hudMode, hudMarkers, hudEntry, drawn>>
    /\ UNCHANGED exceptStab
\* VideoHUD.tsx:85-107  onmessage, UPDATE_SENSORS: the first sample's object is assigned
\* to currentOrientation and to anchorOrientation; a later sample is written into the
\* object of currentOrientation, which anchorOrientation sees when it refers to the same
StabUpdateSensors(payload) ==
    /\ sensorsSeen < MaxSensors
    /\ sensorsSeen' = sensorsSeen + 1
    /\ IF ~hudInitialized
         THEN /\ currentOrientation' = payload.orientation
              /\ anchorOrientation' = payload.orientation
              /\ anchorShared' = TRUE
              /\ hudInitialized' = TRUE
         ELSE /\ currentOrientation' = SmoothedOrientation(currentOrientation,
                                                           payload.orientation)
              /\ anchorOrientation' = IF anchorShared THEN currentOrientation'
                                      ELSE anchorOrientation
              /\ UNCHANGED <<anchorShared, hudInitialized>>
    /\ zoomLevel' = payload.zoom
    /\ UNCHANGED <<hudCtx, canvasSize, hudMode, hudMarkers, hudEntry, drawn>>
    /\ UNCHANGED exceptStab

\* the handler also sets the zoom level back to 1
StabUpdateModeResetsZoom(mode) ==
    /\ hudMode' = mode
    /\ zoomLevel' = 1
    /\ UNCHANGED <<hudCtx, canvasSize, currentOrientation, anchorOrientation, anchorShared,
                   hudInitialized, hudMarkers, hudEntry, drawn, sensorsSeen>>
    /\ UNCHANGED exceptStab
\* VideoHUD.tsx:108-110  onmessage, UPDATE_MODE
StabUpdateMode(mode) ==
    /\ hudMode' = mode
    /\ UNCHANGED <<hudCtx, canvasSize, currentOrientation, anchorOrientation, anchorShared,
                   hudInitialized, zoomLevel, hudMarkers, hudEntry, drawn, sensorsSeen>>
    /\ UNCHANGED exceptStab

\* VideoHUD.tsx:169-172  ppdX = 1 / (60 / canvasWidth), ppdY = 1 / (45 / canvasHeight)
PpdX == canvasSize.width \div 60
PpdY == canvasSize.height \div 45

\* without an orientation the shift is the centre of the canvas
ShiftFromCentre ==
    IF hudInitialized
      THEN [x |-> -(InlineDAlpha(currentOrientation.alpha, anchorOrientation.alpha) * PpdX),
            y |-> -((currentOrientation.beta - anchorOrientation.beta) * PpdY)]
      ELSE [x |-> canvasSize.width \div 2, y |-> canvasSize.height \div 2]
\* VideoHUD.tsx:183-193  shiftX and shiftY
Shift ==
    IF hudInitialized
      THEN [x |-> -(InlineDAlpha(currentOrientation.alpha, anchorOrientation.alpha) * PpdX),
            y |-> -((currentOrientation.beta - anchorOrientation.beta) * PpdY)]
      ELSE [x |-> 0, y |-> 0]

\* VideoHUD.tsx:223-250  the entry after markers.forEach and visualState.forEach of a
\* frame: spawned from the marker or moved towards it, and faded in
EntryAfter ==
    IF hudMarkers = <<>> THEN hudEntry
    ELSE LET m == hudMarkers[1]
             visual == IF hudEntry = <<>>
                         THEN [x |-> m.x, y |-> m.y, width |-> m.width, height |-> m.height,
                               currentOpacity |-> 0]
                         ELSE [hudEntry[1] EXCEPT !.x = FineMove(@, m.x),
                                                  !.y = FineMove(@, m.y),
                                                  !.width = FineMove(@, m.width),
                                                  !.height = FineMove(@, m.height)]
         IN  <<[visual EXCEPT !.currentOpacity = lerp(@, OPAQUE, OPACITY_FACTOR)]>>

\* VideoHUD.tsx:254-258  the position an entry is drawn at, unless it is more than 200
\* pixels off the canvas
Boxes(entries, shift) ==
    IF entries = <<>> THEN <<>>
    ELSE LET x == entries[1].x + shift.x
             y == entries[1].y + shift.y
         IN  IF x < -200 \/ x > canvasSize.width + 200 \/ y < -200
                  \/ y > canvasSize.height + 200
               THEN <<>>
               ELSE <<[x |-> x, y |-> y, w |-> entries[1].width, h |-> entries[1].height,
                       globalAlpha |-> entries[1].currentOpacity]>>

\* VideoHUD.tsx:153-391  what a frame drawn in a mode computes and leaves
LoopOutcome(mode) ==
    LET isWireframe == mode = "wireframe"
        isMachine == mode = "machine"
    IN  [entry |-> EntryAfter,
         drawn |-> [frames |-> drawn.frames + 1,
                    shiftX |-> Shift.x,
                    shiftY |-> Shift.y,
                    pitchOffset |-> currentOrientation.beta * PpdY * zoomLevel,
                    roll |-> currentOrientation.gamma,
                    mainColor |-> IF isWireframe THEN "#ffffff"
                                  ELSE IF isMachine THEN "#00ff41" ELSE "#ffaa00",
                    grid |-> isMachine \/ isWireframe,
                    boxes |-> Boxes(EntryAfter, Shift)]]

\* VideoHUD.tsx:153-391  loop() with a context
StabLoop ==
    /\ hudCtx
    /\ drawn.frames < MaxFrames
    /\ hudEntry' = LoopOutcome(hudMode).entry
    /\ drawn' = LoopOutcome(hudMode).drawn
    /\ UNCHANGED <<hudCtx, canvasSize, currentOrientation, anchorOrientation, anchorShared,
                   hudInitialized, zoomLevel, hudMode, hudMarkers, sensorsSeen>>
    /\ UNCHANGED exceptStab

NextStab ==
    \/ \E size \in InitSizes : StabInit(size)
    \/ \E size \in ResizeSizes : StabResize(size)
    \/ \E m \in HudMarkers : StabUpdateMarkers(m)
    \/ \E payload \in SensorSamples : StabUpdateSensors(payload)
    \/ \E mode \in HudModes : StabUpdateMode(mode)
    \/ StabLoop

\* Part IX
SpecStab == Init /\ [][NextStab]_vars

\* C25: as long as no UPDATE_SENSORS has been received, every frame computes the shift
\* (0, 0) and draws an entry where it is, whatever UPDATE_MARKERS, RESIZE and UPDATE_MODE
\* messages have been received.
C25_NoSensorsNoShift ==
    sensorsSeen = 0 =>
        /\ drawn.shiftX = 0 /\ drawn.shiftY = 0
        /\ (drawn.boxes # <<>> /\ hudEntry # <<>>)
              => (drawn.boxes[1].x = hudEntry[1].x /\ drawn.boxes[1].y = hudEntry[1].y)

\* C25: frames have been drawn after a batch, a resize and a change of mode, and no
\* UPDATE_SENSORS has been received
C25_Witness ==
    /\ sensorsSeen = 0 /\ drawn.frames >= 2 /\ drawn.boxes # <<>>
    /\ canvasSize.width = 1200 /\ drawn.mainColor = "#ffffff"


AnyUpdateSensors == \E payload \in SensorSamples : StabUpdateSensors(payload)
AnyUpdateMarkers == \E m \in HudMarkers : StabUpdateMarkers(m)
AnyUpdateMode == \E mode \in HudModes : StabUpdateMode(mode)

\* C26: the anchor orientation changes only when the first UPDATE_SENSORS is received or
\* when an UPDATE_MARKERS arrives; every UPDATE_SENSORS after the first leaves the anchor
\* as it is and moves the current orientation towards the sample.
C26_AnchorKeptBySensors ==
    [][ /\ anchorOrientation' # anchorOrientation
             => (AnyUpdateSensors /\ ~hudInitialized) \/ AnyUpdateMarkers
        /\ (AnyUpdateSensors /\ hudInitialized)
             => /\ anchorOrientation' = anchorOrientation
                /\ \E payload \in SensorSamples :
                     currentOrientation' = SmoothedOrientation(currentOrientation,
                                                               payload.orientation) ]_vars

\* C27: the horizontal shift a frame computes is minus the shortest yaw difference of the
\* current and the anchor orientation times canvasWidth / 60 times the zoom level.
C27_ShiftScalesWithZoom ==
    [][ (StabLoop /\ hudInitialized) =>
          drawn'.shiftX = -(getAlphaDiff(currentOrientation.alpha, anchorOrientation.alpha)
                              * PpdX * zoomLevel) ]_vars

\* C30: UPDATE_MODE changes visualMode and leaves markers, visualState, the two
\* orientations, the zoom level and the canvas size as they are; and the entry a frame
\* leaves in visualState is the same in every mode.
C30_ModeChangesNoGeometry ==
    /\ [][ AnyUpdateMode =>
             UNCHANGED <<hudMarkers, hudEntry, currentOrientation, anchorOrientation,
                         zoomLevel, canvasSize>> ]_vars
    /\ [](\A mode \in HudModes : LoopOutcome(mode).entry = LoopOutcome("normal").entry)

\* C30: a frame has been drawn in wireframe mode, with the grid, at zoom level 2, and has
\* left an entry
C30_Witness ==
    /\ hudMode = "wireframe" /\ drawn.mainColor = "#ffffff" /\ drawn.grid
    /\ hudEntry # <<>> /\ hudInitialized /\ zoomLevel = 2

(***************************************************************************)
(* Part I: a failure of the detector.                                      *)
(***************************************************************************)
\* detect() resumes in its catch block: createImageBitmap rejected, postMessage threw,
\* or the worker was null
DetectCatches ==
    \E c \in Calls : BitmapFails(c) \/ (BitmapReady(c) /\ worker = "null")

\* C28: when createImageBitmap or the post to the worker throws, detect() resolves with
\* lastMarkers, which stays as it was, and isBusy is false afterwards; when the worker
\* reports ERROR, lastMarkers stays as it was and isBusy is false afterwards; no call of
\* detect() is ever rejected.
C28_DetectorFailureNotPropagated ==
    /\ [][ DetectCatches =>
             /\ settled' = Resolved(lastMarkers)
             /\ lastMarkers' = lastMarkers
             /\ ~isBusy' ]_vars
    /\ [][ OnError => (lastMarkers' = lastMarkers /\ ~isBusy' /\ settled' = settled) ]_vars
    /\ [](settled.how # "rejected")

\* C28: a call that failed in createImageBitmap has resolved with the list of an earlier
\* RESULT, and isBusy is false
C28_Witness ==
    /\ clearedBy = "catch" /\ ~isBusy
    /\ lastMarkers # <<>> /\ settled = Resolved(lastMarkers)

(***************************************************************************)
(* Part X.  A RESULT batch in worker.onmessage of ObjectDetectionService:  *)
(* processRawMarkers over markers that may lack a field.  A field that may *)
(* be missing is a sequence, empty when it is missing; a number that is    *)
(* NaN is the empty sequence too.  x is in tenths of the frame's width,    *)
(* height in tenths of its height.                                         *)
(***************************************************************************)
\* video.videoWidth and video.videoHeight of the frame
BatchWidth == 640
BatchHeight == 480

\* the markers a RESULT may carry: two with every field, one without x, one without label
BatchMarkers ==
    { [id |-> "obj-0", label |-> <<"car">>, x |-> <<5>>, height |-> 2],
      [id |-> "pose-0", label |-> <<"person">>, x |-> <<2>>, height |-> 5],
      [id |-> "obj-1", label |-> <<"car">>, x |-> <<>>, height |-> 2],
      [id |-> "obj-2", label |-> <<>>, x |-> <<5>>, height |-> 2] }

\* the batches of a RESULT: up to two markers
ResultBatches ==
    {<<>>} \cup { <<m>> : m \in BatchMarkers }
           \cup { <<pair[1], pair[2]>> :
                      pair \in { p \in BatchMarkers \X BatchMarkers : p[1] # p[2] } }

\* objectDetectionService.ts:479  `englishLabel.toUpperCase()` of a label that is
\* undefined throws a TypeError
Throws(m) == m.label = <<>>

\* objectDetectionService.ts:410  `m.x * this.currentVideoWidth`: NaN for a missing x
Denormalised(x, width) == IF x = <<>> THEN <<>> ELSE <<(x[1] * width) \div 10>>

\* objectDetectionService.ts:404-422  the callback of normalizedMarkers.map, for a marker
\* that has a label
processed(m) ==
    <<[id |-> m.id, x |-> Denormalised(m.x, BatchWidth),
       rest |-> processRawMarker(m.label[1], m.height, BatchHeight)]>>

\* objectDetectionService.ts:403-423  processRawMarkers of a batch none of whose markers
\* throws
RECURSIVE processRawBatch(_)
processRawBatch(batch) ==
    IF batch = <<>> THEN <<>> ELSE processed(Head(batch)) \o processRawBatch(Tail(batch))

\* objectDetectionService.ts:378-394  detect() posts a frame
BatchSubmit ==
    /\ ~batchBusy /\ ~batchInFlight
    /\ batchBusy' = TRUE
    /\ batchInFlight' = TRUE
    /\ UNCHANGED <<batchIn, batchOut, batchThrew>>
    /\ UNCHANGED exceptBatch

\* objectDetectionService.ts:360  the watchdog
BatchWatchdog ==
    /\ batchBusy
    /\ batchBusy' = FALSE
    /\ UNCHANGED <<batchInFlight, batchIn, batchOut, batchThrew>>
    /\ UNCHANGED exceptBatch

\* objectDetectionService.ts:350-352  worker.onmessage, RESULT: an exception of
\* processRawMarkers ends the handler before lastMarkers and isBusy are assigned
BatchResult(batch) ==
    /\ batchInFlight
    /\ batchInFlight' = FALSE
    /\ batchIn' = batch
    /\ IF \E i \in 1..Len(batch) : Throws(batch[i])
         THEN /\ batchThrew' = TRUE
              /\ UNCHANGED <<batchOut, batchBusy>>
         ELSE /\ batchThrew' = FALSE
              /\ batchOut' = processRawBatch(batch)
              /\ batchBusy' = FALSE
    /\ UNCHANGED exceptBatch

NextBatch ==
    \/ BatchSubmit
    \/ BatchWatchdog
    \/ \E batch \in ResultBatches : BatchResult(batch)

\* Part X
SpecBatch == Init /\ [][NextBatch]_vars

\* a marker that has its required fields
WellFormed(m) == m.x # <<>> /\ m.label # <<>>

\* C29: lastMarkers is what the well-formed markers of the RESULT handled last yield: a
\* marker without a required field has no marker in it, and the others have the markers
\* they would have without it.
C29_MalformedDetectionDropped ==
    batchOut = processRawBatch(SelectSeq(batchIn, WellFormed))

(***************************************************************************)
(* Part XI.  The detection effect of VideoHUD (VideoHUD.tsx:471-576).  A   *)
(* run of the effect starts a processFrame loop whose closure holds the    *)
(* props of its render and its own isMounted flag; a change of markers,    *)
(* activeFilter or onVideoFrame runs the cleanup of the last run and then  *)
(* the effect again.  A loop is either waiting for its animation frame     *)
(* ("raf"), suspended in `await detectionService.detect(video)` ("detect") *)
(* or returned for good ("stopped"); its snapshot is being encoded by      *)
(* convertToBlob ("blob"), being read by the FileReader ("reader") or not  *)
(* under way ("none").                                                     *)
(***************************************************************************)
\* runs of the detection effect
MaxEffects == 2

\* the values of the activeFilter prop: "animal" is a filter matchesFilter does not know
HudFilters == {"all", "person", "vehicle", "animal"}

\* the values of the markers prop: the host's markers carry labels of their own
HudProps == { <<>>, <<[id |-> "ai-1", label |-> "TSEL"]>> }

\* the results of detect(): markers of the labels translateLabel yields
HudRawBatches ==
    { <<>>,
      <<[id |-> "pose-0", label |-> "CHELOVEK"]>>,
      <<[id |-> "obj-0", label |-> "AVTO"], [id |-> "obj-1", label |-> "STUL"]>>,
      <<[id |-> "pose-0", label |-> "TELO"], [id |-> "obj-0", label |-> "GRUZ"]>> }

\* the filter that lets every label through a filter it does not know
matchesFilterOpen(filterVal, label) ==
    \/ filterVal = "all"
    \/ filterVal = "person" /\ label \in {"CHELOVEK", "LITSO", "RECH", "TELO"}
    \/ filterVal = "vehicle" /\ label \in {"AVTO", "GRUZ", "AVTOBUS"}
    \/ filterVal \notin {"all", "person", "vehicle"}

\* VideoHUD.tsx:504-509  matchesFilter
matchesFilter(filterVal, label) ==
    \/ filterVal = "all"
    \/ filterVal = "person" /\ label \in {"CHELOVEK", "LITSO", "RECH", "TELO"}
    \/ filterVal = "vehicle" /\ label \in {"AVTO", "GRUZ", "AVTOBUS"}

\* VideoHUD.tsx:511-531  rawMarkers.forEach: the markers whose label passes the filter
RECURSIVE Passing(_, _)
Passing(rawMarkers, filterVal) ==
    IF rawMarkers = <<>> THEN <<>>
    ELSE (IF matchesFilter(filterVal, Head(rawMarkers).label)
            THEN <<Head(rawMarkers)>> ELSE <<>>)
         \o Passing(Tail(rawMarkers), filterVal)

\* VideoHUD.tsx:502-543  processedMarkers: the local markers that pass, then every
\* marker of the prop
processedMarkers(rawMarkers, filterVal, hostMarkers) ==
    Passing(rawMarkers, filterVal) \o hostMarkers

\* VideoHUD.tsx:575  the cleanup of the run that is in force
CleanedUp(runs) ==
    [i \in 1..Len(runs) |-> IF i = Len(runs) THEN [runs[i] EXCEPT !.isMounted = FALSE]
                            ELSE runs[i]]

\* VideoHUD.tsx:471-576  a render with a changed markers, activeFilter or onVideoFrame:
\* React runs the cleanup of the last run, then the effect with the new props
HudRender(filter, hostMarkers) ==
    /\ hudMounted
    /\ Len(effects) < MaxEffects
    /\ activeFilter' = filter
    /\ markersProp' = hostMarkers
    /\ effects' = Append(CleanedUp(effects),
                         [isMounted |-> TRUE, filterVal |-> filter,
                          aiMarkers |-> hostMarkers, pc |-> "raf", snapshot |-> "none"])
    /\ UNCHANGED <<hudMounted, lastBatch, lastFrameCall>>
    /\ UNCHANGED exceptHud

\* VideoHUD.tsx:414, 575  unmount: the cleanups of the effects, workerRef.current = null
HudUnmount ==
    /\ hudMounted
    /\ hudMounted' = FALSE
    /\ effects' = CleanedUp(effects)
    /\ UNCHANGED <<activeFilter, markersProp, lastBatch, lastFrameCall>>
    /\ UNCHANGED exceptHud

\* VideoHUD.tsx:480-487  processFrame is called by requestAnimationFrame: it returns
\* when isMounted is false, and otherwise calls detect() and is suspended
ProcessFrame(i) ==
    /\ effects[i].pc = "raf"
    /\ effects' = [effects EXCEPT ![i].pc = IF effects[i].isMounted THEN "detect"
                                            ELSE "stopped"]
    /\ UNCHANGED <<hudMounted, activeFilter, markersProp, lastBatch, lastFrameCall>>
    /\ UNCHANGED exceptHud

\* VideoHUD.tsx:487-571  processFrame resumes with the result of detect(): it posts the
\* batch when workerRef.current is set, starts a snapshot when FRAME_SEND_INTERVAL has
\* passed (snap), and asks for the next animation frame
DetectResolves(i, rawMarkers, snap) ==
    /\ effects[i].pc = "detect"
    /\ IF hudMounted
         THEN lastBatch' = <<[by |-> i,
                              isMounted |-> effects[i].isMounted,
                              raw |-> rawMarkers,
                              payload |-> processedMarkers(rawMarkers, effects[i].filterVal,
                                                           effects[i].aiMarkers),
                              activeFilter |-> activeFilter,
                              markers |-> markersProp]>>
         ELSE UNCHANGED lastBatch
    /\ effects' = [effects EXCEPT ![i].pc = "raf",
                                  ![i].snapshot = IF snap /\ @ = "none" THEN "blob" ELSE @]
    /\ UNCHANGED <<hudMounted, activeFilter, markersProp, lastFrameCall>>
    /\ UNCHANGED exceptHud

\* VideoHUD.tsx:557-565  the callback of convertToBlob: it returns when isMounted is
\* false and otherwise starts the FileReader
BlobReady(i) ==
    /\ effects[i].snapshot = "blob"
    /\ effects' = [effects EXCEPT ![i].snapshot = IF effects[i].isMounted THEN "reader"
                                                  ELSE "none"]
    /\ UNCHANGED <<hudMounted, activeFilter, markersProp, lastBatch, lastFrameCall>>
    /\ UNCHANGED exceptHud

\* VideoHUD.tsx:560-563  reader.onloadend: onVideoFrame(base64)
ReaderLoads(i) ==
    /\ effects[i].snapshot = "reader"
    /\ lastFrameCall' = <<[by |-> i, isMounted |-> effects[i].isMounted]>>
    /\ effects' = [effects EXCEPT ![i].snapshot = "none"]
    /\ UNCHANGED <<hudMounted, activeFilter, markersProp, lastBatch>>
    /\ UNCHANGED exceptHud

NextHud ==
    \/ \E filter \in HudFilters, hostMarkers \in HudProps : HudRender(filter, hostMarkers)
    \/ HudUnmount
    \/ \E i \in 1..Len(effects) : ProcessFrame(i)
    \/ \E i \in 1..Len(effects), rawMarkers \in HudRawBatches, snap \in BOOLEAN :
           DetectResolves(i, rawMarkers, snap)
    \/ \E i \in 1..Len(effects) : BlobReady(i)
    \/ \E i \in 1..Len(effects) : ReaderLoads(i)

\* Part XI
SpecHud == Init /\ [][NextHud]_vars

\* m is one of the markers of a batch
Holds(batch, m) == \E k \in 1..Len(batch) : batch[k] = m

\* C31: the UPDATE_MARKERS batch posted last holds every marker of the markers prop of
\* that moment, whatever the filter, and of the locally detected markers exactly those
\* whose label passes the activeFilter prop of that moment ("all" passes every label, a
\* filter that is not known passes none), and nothing else.
C31_BatchHoldsPropAndPassingMarkers ==
    lastBatch # <<>> =>
        LET post == lastBatch[1]
        IN  /\ \A k \in 1..Len(post.markers) : Holds(post.payload, post.markers[k])
            /\ \A k \in 1..Len(post.raw) :
                   Holds(post.payload, post.raw[k])
                       <=> /\ post.activeFilter \in {"all", "person", "vehicle"}
                           /\ matchesFilter(post.activeFilter, post.raw[k].label)
            /\ \A k \in 1..Len(post.payload) :
                   Holds(post.markers, post.payload[k]) \/ Holds(post.raw, post.payload[k])

\* C33: the UPDATE_MARKERS posted last and the onVideoFrame call made last were made by
\* a loop whose effect had not been cleaned up, so that no loop posts or calls after its
\* cleanup and only the loop of the run in force posts.
C33_NoPostAfterCleanup ==
    /\ lastBatch # <<>> => lastBatch[1].isMounted
    /\ lastFrameCall # <<>> => lastFrameCall[1].isMounted

(***************************************************************************)
(* Part XII.  The ImageBitmap of a frame in the worker's onmessage, in     *)
(* both variants: "hud" is objectDetectionService.ts, "reid" is part_002.  *)
(* The service posts a frame with its ImageBitmap transferred; the handler *)
(* returns early when the models are not loaded, and otherwise awaits the  *)
(* detectors and ends by posting RESULT or by catching an exception.       *)
(***************************************************************************)
Variants == {"hud", "reid"}

\* frames a service posts
MaxPosts == 2

\* objectDetectionService.ts:97-103  the handler's early return closes the bitmap;
\* part_002:43  `if (!isLoaded || !e.data.imageBitmap) return;` does not
ClosesNotLoaded(v) == IF v = "hud" THEN 1 ELSE 0

\* objectDetectionService.ts:227-230, part_002:98  the finally block closes the bitmap
ClosesFinally(v) == 1

\* objectDetectionService.ts:338-361, part_002:136-145  load(): a new worker, which runs
\* its init; isReady and isBusy are left as they are
WkLoad(v) ==
    /\ ~wk[v].worker
    /\ wk' = [wk EXCEPT ![v].worker = TRUE, ![v].isLoaded = FALSE,
                        ![v].loadedPosted = FALSE, ![v].inbox = 0, ![v].running = 0]
    /\ UNCHANGED wkEnded
    /\ UNCHANGED exceptWk

\* objectDetectionService.ts:363-369  dispose() terminates the worker and resets isReady;
\* part_002:288  dispose() only terminates the worker
WkDispose(v) ==
    /\ wk[v].worker
    /\ wk' = [wk EXCEPT ![v].worker = FALSE, ![v].loadedPosted = FALSE,
                        ![v].inbox = 0, ![v].running = 0,
                        ![v].isReady = IF v = "hud" THEN FALSE ELSE @]
    /\ UNCHANGED wkEnded
    /\ UNCHANGED exceptWk

\* objectDetectionService.ts:78-80, part_002:36-37  the models are loaded: isLoaded = true,
\* LOADED is posted
WkInitOk(v) ==
    /\ wk[v].worker /\ ~wk[v].isLoaded
    /\ wk' = [wk EXCEPT ![v].isLoaded = TRUE, ![v].loadedPosted = TRUE]
    /\ UNCHANGED wkEnded
    /\ UNCHANGED exceptWk

\* objectDetectionService.ts:345-347, part_002:139  worker.onmessage, LOADED
WkOnLoaded(v) ==
    /\ wk[v].worker /\ wk[v].loadedPosted
    /\ wk' = [wk EXCEPT ![v].loadedPosted = FALSE, ![v].isReady = TRUE]
    /\ UNCHANGED wkEnded
    /\ UNCHANGED exceptWk

\* objectDetectionService.ts:360  the watchdog of the variant VideoHUD imports
WkWatchdog ==
    /\ wk["hud"].isBusy
    /\ wk' = [wk EXCEPT !["hud"].isBusy = FALSE]
    /\ UNCHANGED wkEnded
    /\ UNCHANGED exceptWk

\* objectDetectionService.ts:371-401  detect() posts a frame when there is a worker and
\* the service is not busy; part_002:147-155  when the service is ready and not busy
WkPost(v) ==
    /\ wk[v].worker /\ ~wk[v].isBusy
    /\ v = "reid" => wk[v].isReady
    /\ wk[v].posted < MaxPosts
    /\ wk' = [wk EXCEPT ![v].isBusy = TRUE, ![v].posted = @ + 1, ![v].inbox = @ + 1]
    /\ UNCHANGED wkEnded
    /\ UNCHANGED exceptWk

\* objectDetectionService.ts:96-109, part_002:42-46  onmessage up to its await
WkReceives(v) ==
    /\ wk[v].worker /\ wk[v].inbox > 0
    /\ IF wk[v].isLoaded
         THEN /\ wk' = [wk EXCEPT ![v].inbox = @ - 1, ![v].running = @ + 1]
              /\ UNCHANGED wkEnded
         ELSE /\ wk' = [wk EXCEPT ![v].inbox = @ - 1]
              /\ wkEnded' = <<[variant |-> v, path |-> "notloaded",
                               closes |-> ClosesNotLoaded(v)]>>
    /\ UNCHANGED exceptWk

\* objectDetectionService.ts:222-230, 350-352, part_002:96-98, 140-143  the detectors are
\* done: RESULT is posted, the finally block runs, and the service handles RESULT
WkResult(v) ==
    /\ wk[v].worker /\ wk[v].running > 0
    /\ wk' = [wk EXCEPT ![v].running = @ - 1, ![v].isBusy = FALSE]
    /\ wkEnded' = <<[variant |-> v, path |-> "result", closes |-> ClosesFinally(v)]>>
    /\ UNCHANGED exceptWk

\* objectDetectionService.ts:225-230, part_002:98  a detector throws: catch, then finally
WkThrows(v) ==
    /\ wk[v].worker /\ wk[v].running > 0
    /\ wk' = [wk EXCEPT ![v].running = @ - 1]
    /\ wkEnded' = <<[variant |-> v, path |-> "error", closes |-> ClosesFinally(v)]>>
    /\ UNCHANGED exceptWk

NextWk ==
    \/ \E v \in Variants : WkLoad(v)
    \/ \E v \in Variants : WkDispose(v)
    \/ \E v \in Variants : WkInitOk(v)
    \/ \E v \in Variants : WkOnLoaded(v)
    \/ WkWatchdog
    \/ \E v \in Variants : WkPost(v)
    \/ \E v \in Variants : WkReceives(v)
    \/ \E v \in Variants : WkResult(v)
    \/ \E v \in Variants : WkThrows(v)

\* Part XII
SpecWk == Init /\ [][NextWk]_vars

\* C32: the handler that ended last closed the ImageBitmap of its frame exactly once, on
\* the not-loaded path, after a RESULT and after an exception, in both variants.
C32_BitmapClosedOnce ==
    wkEnded # <<>> => wkEnded[1].closes = 1

(***************************************************************************)
(* Part XIII.  The maps of the adaptive-LERP variant (part_001) over two   *)
(* ids: processWorkerResults on a RESULT and getInterpolatedMarkers on the *)
(* return of a detect() call (part_001:146, 167: every call that returns,  *)
(* returns through it).  A map is a function from the ids to <<>> (no key) *)
(* or the one value the key holds.  The markers and their smoothing are    *)
(* those of Part VIII, the ids are the MarkerIds of Part IIIb.             *)
(***************************************************************************)
\* detect() calls counted after the life of a marker has run out
MaxAfterLife == 2

\* the markers a RESULT reports for an id: two of Part VIII's, each within the
\* deadzone of the other
LifeMarkers == { m \in RawMarkers : m.x <= 20 /\ m.kx <= 10 }

\* the RESULT batches: for each id, no marker or one
LifeBatches == [MarkerIds -> {<<>>} \cup { <<m>> : m \in LifeMarkers }]

\* the keys of a map
Keys(map) == { id \in MarkerIds : map[id] # <<>> }

\* the spawn that never happens
SpawnedNever(curr, raw) == curr

\* part_001:184-186  `if (!this.currentMarkers.has(raw.id)) this.currentMarkers.set(...)`
Spawned(curr, raw) == IF curr = <<>> THEN <<raw>> ELSE curr

\* the kill logic that lets a marker live one call longer
DeadBelowZero(life) == life < 0

\* part_001:199-202  the kill logic: `if (life <= 0)`
Dead(life) == life <= 0

\* part_001:196  `this.persistenceMap.get(id) || 0`
LifeOf(id) == IF persistenceMap[id] = <<>> THEN 0 ELSE persistenceMap[id][1]

\* part_001:206-256  the marker after the smoothing towards its target
Interpolated(curr, target) ==
    LET moved == SmoothedKeypoint(Smoothed(curr, target), target)
    IN  [moved EXCEPT !.distance =
            adaptiveCalculateDistance(IF moved.height = 0 THEN 1000 ELSE moved.height,
                                      ScreenHeight)]

\* part_001:133-135, 170-188  worker.onmessage, RESULT: processWorkerResults
LifeResult(batch) ==
    /\ targetMarkers' = [id \in MarkerIds |->
                            IF batch[id] # <<>> THEN batch[id] ELSE targetMarkers[id]]
    /\ persistenceMap' = [id \in MarkerIds |->
                            IF batch[id] # <<>> THEN <<MAX_PERSISTENCE>>
                            ELSE persistenceMap[id]]
    /\ currentMarkers' = [id \in MarkerIds |->
                            IF batch[id] # <<>> THEN Spawned(currentMarkers[id], batch[id][1])
                            ELSE currentMarkers[id]]
    /\ lifeCalls' = [id \in MarkerIds |-> IF batch[id] # <<>> THEN 0 ELSE lifeCalls[id]]
    /\ UNCHANGED lifeReturned
    /\ UNCHANGED exceptLife

\* part_001:145-168, 190-269  detect() returns getInterpolatedMarkers(): a marker whose
\* life is over is deleted from the three maps, the others lose one call of life, are
\* smoothed and returned
LifeDetect ==
    /\ \E deadIds \in { { id \in Keys(currentMarkers) : Dead(LifeOf(id)) } } :
         /\ lifeReturned' = Keys(currentMarkers) \ deadIds
         /\ persistenceMap' = [id \in MarkerIds |->
                                 IF id \in deadIds THEN <<>>
                                 ELSE IF id \in Keys(currentMarkers) THEN <<LifeOf(id) - 1>>
                                 ELSE persistenceMap[id]]
         /\ targetMarkers' = [id \in MarkerIds |->
                                 IF id \in deadIds THEN <<>> ELSE targetMarkers[id]]
         /\ currentMarkers' = [id \in MarkerIds |->
                                 IF id \in deadIds THEN <<>>
                                 ELSE IF id \in Keys(currentMarkers) /\ targetMarkers[id] # <<>>
                                        THEN <<Interpolated(currentMarkers[id][1],
                                                            targetMarkers[id][1])>>
                                 ELSE currentMarkers[id]]
    /\ lifeCalls' = [id \in MarkerIds |->
                        IF lifeCalls[id] < 0 \/ lifeCalls[id] >= MAX_PERSISTENCE + MaxAfterLife
                          THEN lifeCalls[id] ELSE lifeCalls[id] + 1]
    /\ UNCHANGED exceptLife

NextLife ==
    \/ \E batch \in LifeBatches : LifeResult(batch)
    \/ LifeDetect

\* Part XIII
SpecLife == Init /\ [][NextLife]_vars

\* C34: currentMarkers, targetMarkers and persistenceMap have the same keys.
C34_MapsShareKeys ==
    /\ Keys(currentMarkers) = Keys(targetMarkers)
    /\ Keys(targetMarkers) = Keys(persistenceMap)

\* a RESULT spawned one id, and the other id has been deleted by a later detect()
C34_Witness ==
    \E id \in MarkerIds, other \in MarkerIds :
        /\ lifeCalls[id] = 0 /\ id \in Keys(currentMarkers)
        /\ lifeCalls[other] > MAX_PERSISTENCE /\ other \notin Keys(currentMarkers)

\* C35: an id that n >= 1 detect() calls have returned since the last RESULT reporting
\* it was in the last call's markers exactly when n <= MAX_PERSISTENCE; it is in the
\* three maps with MAX_PERSISTENCE - n of life left up to the MAX_PERSISTENCE-th call
\* (MAX_PERSISTENCE just after the RESULT, n = 0) and in none of them after the call
\* that follows.
C35_LifeIsMaxPersistenceCalls ==
    \A id \in MarkerIds :
        /\ lifeCalls[id] >= 1 => (id \in lifeReturned <=> lifeCalls[id] <= MAX_PERSISTENCE)
        /\ lifeCalls[id] \in 0..MAX_PERSISTENCE =>
              /\ id \in Keys(currentMarkers) \cap Keys(targetMarkers)
              /\ persistenceMap[id] = <<MAX_PERSISTENCE - lifeCalls[id]>>
        /\ lifeCalls[id] > MAX_PERSISTENCE =>
              id \notin Keys(currentMarkers) \cup Keys(targetMarkers) \cup Keys(persistenceMap)

\* an id was returned by the MAX_PERSISTENCE-th call after its RESULT, and another has
\* been removed by the call after its MAX_PERSISTENCE-th
C35_Witness ==
    \E id \in MarkerIds, other \in MarkerIds :
        /\ lifeCalls[id] = MAX_PERSISTENCE /\ id \in lifeReturned
        /\ lifeCalls[other] = MAX_PERSISTENCE + 1 /\ other \notin lifeReturned

(***************************************************************************)
(* Part XIV.  connect(), handleOpen, handleClose and disconnect() of       *)
(* GeminiService, for a service that has an API key.  disconnect() drops   *)
(* this.session without closing it and clears no timer, so the sessions    *)
(* and the timers outlive it.                                              *)
(***************************************************************************)
\* reconnect timers pending at a time, sessions alive at a time, and the value up to
\* which reconnectAttempts is counted
MaxTimers == 2
MaxLinks == 2
MaxAttempts == 2

\* the statuses reported since disconnect(), after the statuses `reported` of a handler
Since(reported, disconnected) ==
    IF disconnected THEN gemSince \cup { reported[k] : k \in 1..Len(reported) } ELSE {}

\* geminiService.ts:129-151  handleClose, after the statuses `reported` of the handler
\* that calls it: DISCONNECTED when shouldReconnect is false, and otherwise CONNECTING
\* and a timer that will run connect()
handleClose(reported) ==
    IF ~shouldReconnect
      THEN /\ gemStatus' = "DISCONNECTED"
           /\ gemSince' = Since(reported \o <<"DISCONNECTED">>, gemDisconnected)
           /\ UNCHANGED gemTimers
      ELSE /\ gemTimers < MaxTimers
           /\ gemStatus' = "CONNECTING"
           /\ gemSince' = Since(reported \o <<"CONNECTING">>, gemDisconnected)
           /\ gemTimers' = gemTimers + 1

\* geminiService.ts:51-115  connect(), up to `await this.ai.live.connect(config)`
connect ==
    /\ gemLinks.connecting + gemLinks.open < MaxLinks
    /\ shouldReconnect' = TRUE
    /\ gemStatus' = "CONNECTING"
    /\ gemLinks' = [gemLinks EXCEPT !.connecting = @ + 1]

\* geminiService.ts:51  connect() called by the host
GemConnect ==
    /\ connect
    /\ gemDisconnected' = FALSE
    /\ gemSince' = {}
    /\ gemAttempted' = FALSE
    /\ UNCHANGED <<reconnectAttempts, gemTimers>>
    /\ UNCHANGED exceptGem

\* geminiService.ts:147-150  the timer of handleClose fires: reconnectAttempts++, connect()
GemTimerFires ==
    /\ gemTimers > 0
    /\ gemTimers' = gemTimers - 1
    /\ reconnectAttempts' = IF reconnectAttempts < MaxAttempts THEN reconnectAttempts + 1
                            ELSE reconnectAttempts
    /\ connect
    /\ gemSince' = Since(<<"CONNECTING">>, gemDisconnected)
    /\ gemAttempted' = gemDisconnected
    /\ UNCHANGED gemDisconnected
    /\ UNCHANGED exceptGem

\* geminiService.ts:112-113, 122-127  the session is established: onopen runs handleOpen
GemOpens ==
    /\ gemLinks.connecting > 0
    /\ gemLinks' = [connecting |-> gemLinks.connecting - 1, open |-> gemLinks.open + 1]
    /\ reconnectAttempts' = 0
    /\ gemStatus' = "CONNECTED"
    /\ gemSince' = Since(<<"CONNECTED">>, gemDisconnected)
    /\ UNCHANGED <<shouldReconnect, gemTimers, gemDisconnected, gemAttempted>>
    /\ UNCHANGED exceptGem

\* geminiService.ts:115-119  `ai.live.connect` rejects: ERROR, then handleClose()
GemConnectFails ==
    /\ gemLinks.connecting > 0
    /\ gemLinks' = [gemLinks EXCEPT !.connecting = @ - 1]
    /\ handleClose(<<"ERROR">>)
    /\ UNCHANGED <<shouldReconnect, reconnectAttempts, gemDisconnected, gemAttempted>>
    /\ UNCHANGED exceptGem

\* geminiService.ts:83, 129-151  an open session closes: onclose runs handleClose
GemOnClose ==
    /\ gemLinks.open > 0
    /\ gemLinks' = [gemLinks EXCEPT !.open = @ - 1]
    /\ handleClose(<<>>)
    /\ UNCHANGED <<shouldReconnect, reconnectAttempts, gemDisconnected, gemAttempted>>
    /\ UNCHANGED exceptGem

\* geminiService.ts:389-401  disconnect()
GemDisconnect ==
    /\ shouldReconnect' = FALSE
    /\ gemStatus' = "DISCONNECTED"
    /\ gemDisconnected' = TRUE
    /\ gemSince' = {"DISCONNECTED"}
    /\ gemAttempted' = FALSE
    /\ UNCHANGED <<reconnectAttempts, gemTimers, gemLinks>>
    /\ UNCHANGED exceptGem

NextGem ==
    \/ GemConnect
    \/ GemTimerFires
    \/ GemOpens
    \/ GemConnectFails
    \/ GemOnClose
    \/ GemDisconnect

\* Part XIV
SpecGem == Init /\ [][NextGem]_vars

\* C36: from disconnect() until the host calls connect(), no reconnect timer has run
\* connect() and no status but DISCONNECTED has been reported.
C36_StaysDisconnected ==
    gemDisconnected => (~gemAttempted /\ gemSince = {"DISCONNECTED"})

(***************************************************************************)
(* Part XV.  The audio chunks of GeminiService while a session is open and *)
(* the AudioContext exists: handleMessage chains scheduleAudioChunk onto   *)
(* processingQueue; a stop keyword runs stopAllAudio and replaces the      *)
(* field by a resolved promise, which starts a new chain and leaves the    *)
(* callbacks already chained onto the old promise in place.                *)
(***************************************************************************)
\* chunks received and stop commands recognised
MaxChunks == 3
MaxStops == 2

\* the version scheduleAudioChunk compares with, were it read when the chunk was received
localVersionAtReceipt(chunk) == chunk.received

\* geminiService.ts:226  `const localVersion = this.currentTurnVersion`, read when
\* scheduleAudioChunk is called for the chunk
localVersion(chunk) == currentTurnVersion

\* geminiService.ts:160, 225-231  the chain reaches the chunk: scheduleAudioChunk reads
\* localVersion and awaits decodeAudioData
Begun(chunk) == [chunk EXCEPT !.local = <<localVersion(chunk)>>]

\* geminiService.ts:158-163  handleMessage with audio data: scheduleAudioChunk is
\* chained onto processingQueue, and runs as soon as handleMessage has returned when
\* the chain holds no other chunk
AudioChunkMessage ==
    /\ audioReceived < MaxChunks
    /\ audioReceived' = audioReceived + 1
    /\ \E chunk \in { [received |-> currentTurnVersion, local |-> <<>>] } :
         audioChains' = [audioChains EXCEPT ![Len(audioChains)] =
                            IF @ = <<>> THEN <<Begun(chunk)>> ELSE Append(@, chunk)]
    /\ UNCHANGED <<currentTurnVersion, activeSources, audioStarted>>
    /\ UNCHANGED exceptAudio

\* geminiService.ts:179-185, 207-223  handleMessage with a stop keyword in the input
\* transcription: stopAllAudio(), then `this.processingQueue = Promise.resolve()`
StopMessage ==
    /\ currentTurnVersion < MaxStops
    /\ currentTurnVersion' = currentTurnVersion + 1
    /\ activeSources' = 0
    /\ audioChains' = IF audioChains[Len(audioChains)] = <<>> THEN audioChains
                      ELSE Append(audioChains, <<>>)
    /\ UNCHANGED <<audioReceived, audioStarted>>
    /\ UNCHANGED exceptAudio

\* the chains after the first chunk of chain c has settled: the chunk behind it begins,
\* and an old chain that has run out is dropped
Advanced(chains, c) ==
    LET rest == Tail(chains[c])
    IN  IF rest = <<>> /\ c < Len(chains)
          THEN [k \in 1..(Len(chains) - 1) |-> IF k < c THEN chains[k] ELSE chains[k + 1]]
          ELSE [chains EXCEPT ![c] = IF rest = <<>> THEN <<>>
                                     ELSE <<Begun(rest[1])>> \o Tail(rest)]

\* geminiService.ts:231-259  scheduleAudioChunk resumes with the decoded buffer: it
\* returns when the version has changed, and otherwise starts the source
ChunkDecoded(c) ==
    /\ audioChains[c] # <<>>
    /\ IF audioChains[c][1].local[1] # currentTurnVersion
         THEN UNCHANGED <<activeSources, audioStarted>>
         ELSE /\ activeSources' = activeSources + 1
              /\ audioStarted' = <<[received |-> audioChains[c][1].received,
                                    started |-> currentTurnVersion]>>
    /\ audioChains' = Advanced(audioChains, c)
    /\ UNCHANGED <<currentTurnVersion, audioReceived>>
    /\ UNCHANGED exceptAudio

\* geminiService.ts:229-230, 262-264  decodeAudioData rejects: the error is logged
ChunkDecodeFails(c) ==
    /\ audioChains[c] # <<>>
    /\ audioChains' = Advanced(audioChains, c)
    /\ UNCHANGED <<currentTurnVersion, activeSources, audioReceived, audioStarted>>
    /\ UNCHANGED exceptAudio

\* geminiService.ts:256-258  source.onended
SourceEnds ==
    /\ activeSources > 0
    /\ activeSources' = activeSources - 1
    /\ UNCHANGED <<currentTurnVersion, audioChains, audioReceived, audioStarted>>
    /\ UNCHANGED exceptAudio

NextAudio ==
    \/ AudioChunkMessage
    \/ StopMessage
    \/ \E c \in 1..Len(audioChains) : ChunkDecoded(c)
    \/ \E c \in 1..Len(audioChains) : ChunkDecodeFails(c)
    \/ SourceEnds

\* Part XV
SpecAudio == Init /\ [][NextAudio]_vars

\* C37: the chunk started last was started at the version at which it was received: no
\* stop command came between its receipt and its start.
C37_NoAudioFromBeforeStop ==
    audioStarted # <<>> => audioStarted[1].received = audioStarted[1].started

(***************************************************************************)
(* Part XVI.  P2PService (part_004): init(), the handlers of the Peer's    *)
(* 'open', 'disconnected' and 'error' events, attemptReconnect and its     *)
(* timer, and destroy().  The Peer is the environment: it is connecting    *)
(* after its construction and after reconnect(), it emits 'open' when the  *)
(* connection is made and 'disconnected' when it is lost, and errors at    *)
(* any time; a destroyed Peer may still deliver an event.                  *)
(***************************************************************************)
\* reconnect() calls counted
MaxReconnects == 3

\* err.type of an 'error' event
ErrorTypes == {"peer-unavailable", "network", "browser-incompatible"}

\* part_004:39  the errors that call attemptReconnect
Retried(type) == type \in {"network", "server-error", "socket-error", "socket-closed"}

\* the 'open' handler's clearTimeout, were it followed by `this.reconnectTimeout = null`
ClearedToNull(timeout) == "null"

\* part_004:21, 71  `if (this.reconnectTimeout) clearTimeout(this.reconnectTimeout)`:
\* the field keeps the id
Cleared(timeout) == IF timeout = "null" THEN "null" ELSE "stale"

\* part_004:48-51  attemptReconnect: a timer is set unless the field holds an id
attemptReconnect ==
    IF reconnectTimeout # "null"
      THEN UNCHANGED <<reconnectTimeout, p2pTimers>>
      ELSE reconnectTimeout' = "live" /\ p2pTimers' = p2pTimers + 1

\* part_004:11-46  init(username)
P2PInit ==
    /\ p2pPeer = "null"
    /\ p2pPeer' = "peer"
    /\ p2pLink' = "connecting"
    /\ UNCHANGED <<reconnectTimeout, p2pTimers, p2pOwed, p2pReconnects, p2pLate, p2pCall>>
    /\ UNCHANGED exceptP2P

\* part_004:18-22  'open'
P2POpen ==
    /\ p2pPeer = "peer" /\ p2pLink = "connecting"
    /\ p2pLink' = "open"
    /\ reconnectTimeout' = Cleared(reconnectTimeout)
    /\ p2pTimers' = IF reconnectTimeout = "live" THEN p2pTimers - 1 ELSE p2pTimers
    /\ p2pOwed' = FALSE
    /\ UNCHANGED <<p2pPeer, p2pReconnects, p2pLate, p2pCall>>
    /\ UNCHANGED exceptP2P

\* part_004:30-33  'disconnected'
P2PDisconnected ==
    /\ p2pPeer = "peer" /\ p2pLink # "disconnected"
    /\ p2pLink' = "disconnected"
    /\ attemptReconnect
    /\ p2pOwed' = TRUE
    /\ UNCHANGED <<p2pPeer, p2pReconnects, p2pLate, p2pCall>>
    /\ UNCHANGED exceptP2P

\* part_004:35-45  'error'
P2PError(type) ==
    /\ p2pPeer = "peer"
    /\ IF Retried(type)
         THEN /\ attemptReconnect
              /\ p2pOwed' = (p2pOwed \/ p2pLink = "disconnected")
         ELSE UNCHANGED <<reconnectTimeout, p2pTimers, p2pOwed>>
    /\ UNCHANGED <<p2pPeer, p2pLink, p2pReconnects, p2pLate, p2pCall>>
    /\ UNCHANGED exceptP2P

\* part_004:30-45  an event of a Peer that destroy() has destroyed
P2PLateEvent ==
    /\ p2pPeer = "destroyed"
    /\ attemptReconnect
    /\ UNCHANGED <<p2pPeer, p2pLink, p2pOwed, p2pReconnects, p2pLate, p2pCall>>
    /\ UNCHANGED exceptP2P

\* part_004:53  `this.peer && !this.peer.destroyed && this.peer.disconnected`
CanReconnect(peer, link) == peer = "peer" /\ link = "disconnected"

\* part_004:51-59  the timer fires 3000 ms after attemptReconnect; reconnect() may throw,
\* which is caught
P2PTimerFires(throws) ==
    /\ p2pTimers > 0
    /\ p2pTimers' = p2pTimers - 1
    /\ reconnectTimeout' = "null"
    /\ IF CanReconnect(p2pPeer, p2pLink)
         THEN /\ p2pLink' = IF throws THEN p2pLink ELSE "connecting"
              /\ p2pReconnects' = IF p2pReconnects < MaxReconnects THEN p2pReconnects + 1
                                  ELSE p2pReconnects
              /\ p2pOwed' = FALSE
              /\ p2pLate' = (p2pLate \/ p2pPeer = "destroyed")
         ELSE UNCHANGED <<p2pLink, p2pReconnects, p2pOwed, p2pLate>>
    /\ UNCHANGED <<p2pPeer, p2pCall>>
    /\ UNCHANGED exceptP2P

\* part_004:70-76  destroy()
P2PDestroy ==
    /\ p2pPeer = "peer"
    /\ p2pPeer' = "destroyed"
    /\ p2pLink' = "disconnected"
    /\ reconnectTimeout' = Cleared(reconnectTimeout)
    /\ p2pTimers' = IF reconnectTimeout = "live" THEN p2pTimers - 1 ELSE p2pTimers
    /\ p2pOwed' = FALSE
    /\ UNCHANGED <<p2pReconnects, p2pLate, p2pCall>>
    /\ UNCHANGED exceptP2P

\* part_004:62-68  callUser(peerId, localStream)
P2PCallUser ==
    /\ p2pCall' = IF p2pPeer # "peer" \/ p2pLink = "disconnected" THEN "null" ELSE "call"
    /\ UNCHANGED <<p2pPeer, p2pLink, reconnectTimeout, p2pTimers, p2pOwed, p2pReconnects,
                   p2pLate>>
    /\ UNCHANGED exceptP2P

NextP2P ==
    \/ P2PInit
    \/ P2POpen
    \/ P2PDisconnected
    \/ \E type \in ErrorTypes : P2PError(type)
    \/ P2PLateEvent
    \/ \E throws \in BOOLEAN : P2PTimerFires(throws)
    \/ P2PDestroy
    \/ P2PCallUser

\* Part XVI
SpecP2P == Init /\ [][NextP2P]_vars

\* C38: while an event that found the peer disconnected has not been answered by
\* reconnect(), a reconnect timer is pending that will call it; there is never more than
\* one timer; and no reconnect() has been executed after destroy().
C38_ReconnectIsScheduled ==
    /\ p2pOwed => p2pTimers = 1
    /\ p2pTimers <= 1
    /\ ~p2pLate

(***************************************************************************)
(* Part XVII.  The callback App gives to subscribeToChat (App.tsx:88-94):  *)
(* each delivery passes an updater to setMessages, and React applies the   *)
(* pending updaters in order, each to the result of the one before.        *)
(***************************************************************************)
\* deliveries of the chat subscription
MaxDeliveries == 4

\* the messages the subscription delivers: the same id may come with another text
ChatMessages == [id : {"m1", "m2"}, text : {"a", "b"}]

\* prev.some(m => m.id === id)
Present(prev, id) == \E k \in 1..Len(prev) : prev[k].id = id

\* the updater without the test
updaterAppends(prev, msg) == Append(prev, msg)

\* App.tsx:89-93  the updater: `if (prev.some(m => m.id === msg.id)) return prev;
\* return [...prev, msg];`
updater(prev, msg) == IF Present(prev, msg.id) THEN prev ELSE Append(prev, msg)

\* the list after the pending updaters, applied in order
RECURSIVE Applied(_, _)
Applied(prev, pending) ==
    IF pending = <<>> THEN prev
    ELSE Applied(updater(prev, Head(pending)), Tail(pending))

\* App.tsx:88-94  the subscription delivers a message: setMessages(updater)
ChatDeliver(msg) ==
    /\ chatDelivered < MaxDeliveries
    /\ chatDelivered' = chatDelivered + 1
    /\ chatPending' = Append(chatPending, msg)
    /\ UNCHANGED <<chatMessages, chatDuplicate, chatKept>>
    /\ UNCHANGED exceptChat

\* App.tsx:43, 89  React renders App: the pending updaters are applied
ChatRender ==
    /\ chatPending # <<>>
    /\ chatMessages' = Applied(chatMessages, chatPending)
    /\ chatPending' = <<>>
    /\ LET before(k) == Applied(chatMessages, SubSeq(chatPending, 1, k - 1))
           dups == { k \in 1..Len(chatPending) : Present(before(k), chatPending[k].id) }
       IN  /\ chatDuplicate' = (chatDuplicate \/ dups # {})
           /\ chatKept' = (chatKept /\ \A k \in dups :
                                          updater(before(k), chatPending[k]) = before(k))
    /\ UNCHANGED chatDelivered
    /\ UNCHANGED exceptChat

NextChat ==
    \/ \E msg \in ChatMessages : ChatDeliver(msg)
    \/ ChatRender

\* Part XVII
SpecChat == Init /\ [][NextChat]_vars

\* C39: no two messages of the list have the same id, and every delivery of an id the
\* list already held has left the list as it was.
C39_ChatIdsUnique ==
    /\ \A i \in 1..Len(chatMessages), j \in 1..Len(chatMessages) :
           chatMessages[i].id = chatMessages[j].id => i = j
    /\ chatKept

\* the same id has been delivered again, with another text, and the list holds two messages
C39_Witness ==
    /\ chatDuplicate
    /\ Len(chatMessages) = 2
    /\ chatDelivered > 2

====
